---- MODULE Spec2Model ----
(***************************************************************************)
(* Playbian Auto Typer & Clicker: the action model, the special-key       *)
(* tokenizer, the sequence engine and the application's run control.      *)
(*                                                                         *)
(* Conventions.  Python None is the string "None".  Times (delay,         *)
(* wait_time, repeat_interval, duration) are integers counting tenths of  *)
(* a second.  A Python str that is scanned character by character is a    *)
(* sequence of one-character strings.  A Python object and a Python dict  *)
(* are both records; an action object carries its class in the field cls, *)
(* the dictionary form carries it under the key type.                     *)
(***************************************************************************)
EXTENDS Integers, Sequences, FiniteSets, TLC

\* ------------------------------------------------------------------ bounds
MaxActions == 3    \* longest action list explored by the engine
MaxLoops == 3      \* largest loop_count explored by the engine
MaxWorkers == 2    \* worker threads the application may have launched
MaxAppActions == 2 \* longest action list explored by the application
MaxTokLen == 6     \* longest text handed to the tokenizer
MaxClock == 2      \* readings of time.time() explored

\* ---------------------------------------------------------------- helpers
None == "None"

\* dict.get(key, default)
Get(d, k, default) == IF k \in DOMAIN d THEN d[k] ELSE default

\* list.pop(i) / list.insert(i, x) with 0-based i, on a 1-based sequence
Pop(s, i) == SubSeq(s, 1, i) \o SubSeq(s, i + 2, Len(s))
Insert(s, i, x) == SubSeq(s, 1, i) \o <<x>> \o SubSeq(s, i + 1, Len(s))

\* str.title() on the button and direction names the program uses
Title(s) ==
  CASE s = "left" -> "Left"
    [] s = "right" -> "Right"
    [] s = "middle" -> "Middle"
    [] s = "up" -> "Up"
    [] s = "down" -> "Down"
    [] OTHER -> s

\* '+'.join(keys)
RECURSIVE JoinPlus(_)
JoinPlus(keys) ==
  IF Len(keys) = 0 THEN ""
  ELSE IF Len(keys) = 1 THEN keys[1]
  ELSE keys[1] \o "+" \o JoinPlus(Tail(keys))

\* ------------------------------------------------------------ Action model
\* Action.__init__
ActionBase(cls, delay, now) ==
  [cls |-> cls, delay |-> delay, id |-> None, name |-> "", description |-> <<>>,
   enabled |-> TRUE, created_at |-> now]

\* A description is the sequence of pieces whose concatenation is the
\* Python string; text[:50] is the first 50 characters of the text.
DescriptionCut == 50
Min(a, b) == IF a < b THEN a ELSE b
TypeDescription(text) ==
  <<"Type: ">> \o SubSeq(text, 1, Min(DescriptionCut, Len(text)))
    \o (IF Len(text) > DescriptionCut THEN <<"...">> ELSE <<>>)
ClickDescription(button, x, y) ==
  <<"Click ", button, " at (", ToString(x), ", ", ToString(y), ")">>
DelayDescription(wait_time) == <<"Wait for ", ToString(wait_time), " seconds">>
HotkeyDescription(keys) == <<"Press ", JoinPlus(keys)>>
SpecialKeyDescription(key) == <<"Press ", key, " key">>
ScrollDescription(direction, clicks, x, y) ==
  <<"Scroll ", direction, " ", ToString(clicks), " clicks at (",
    ToString(x), ", ", ToString(y), ")">>
DragDescription(sx, sy, ex, ey) ==
  <<"Drag from (", ToString(sx), ", ", ToString(sy), ") to (",
    ToString(ex), ", ", ToString(ey), ")">>

TypeAction(text, delay, now) ==
  [ActionBase("TypeAction", delay, now) EXCEPT
     !.name = "Type Text", !.description = TypeDescription(text)]
    @@ [text |-> text]

ClickAction(x, y, button, delay, now) ==
  [ActionBase("ClickAction", delay, now) EXCEPT
     !.name = Title(button) \o " Click",
     !.description = ClickDescription(button, x, y)]
    @@ [x |-> x, y |-> y, button |-> button]

DelayAction(wait_time, now) ==
  [ActionBase("DelayAction", 0, now) EXCEPT
     !.name = "Delay", !.description = DelayDescription(wait_time)]
    @@ [wait_time |-> wait_time]

HotkeyAction(keys, delay, now) ==
  [ActionBase("HotkeyAction", delay, now) EXCEPT
     !.name = "Hotkey", !.description = HotkeyDescription(keys)]
    @@ [keys |-> keys]

SpecialKeyAction(key, delay, now) ==
  [ActionBase("SpecialKeyAction", delay, now) EXCEPT
     !.name = "Special Key", !.description = SpecialKeyDescription(key)]
    @@ [key |-> key]

ScrollAction(x, y, clicks, direction, delay, now) ==
  [ActionBase("ScrollAction", delay, now) EXCEPT
     !.name = "Scroll " \o Title(direction),
     !.description = ScrollDescription(direction, clicks, x, y)]
    @@ [x |-> x, y |-> y, clicks |-> clicks, direction |-> direction]

DragAction(start_x, start_y, end_x, end_y, duration, button, delay, now) ==
  [ActionBase("DragAction", delay, now) EXCEPT
     !.name = "Drag " \o Title(button),
     !.description = DragDescription(start_x, start_y, end_x, end_y)]
    @@ [start_x |-> start_x, start_y |-> start_y, end_x |-> end_x,
        end_y |-> end_y, duration |-> duration, button |-> button]

\* Action.to_dict
ActionToDict(self) ==
  [type |-> self.cls, delay |-> self.delay, id |-> self.id, name |-> self.name,
   description |-> self.description, enabled |-> self.enabled,
   created_at |-> self.created_at]

\* Action.from_dict
ActionFromDict(self, data, now) ==
  [self EXCEPT
     !.delay = Get(data, "delay", 0),
     !.id = Get(data, "id", None),
     !.name = Get(data, "name", ""),
     !.description = Get(data, "description", <<>>),
     !.enabled = Get(data, "enabled", TRUE),
     !.created_at = Get(data, "created_at", now)]

TypeToDict(self) == ActionToDict(self) @@ [text |-> self.text]
TypeFromDict(self, data, now) ==
  LET text == Get(data, "text", <<>>)
  IN [ActionFromDict(self, data, now) EXCEPT
        !.text = text, !.description = TypeDescription(text)]

ClickToDict(self) ==
  ActionToDict(self) @@ [x |-> self.x, y |-> self.y, button |-> self.button]
ClickFromDict(self, data, now) ==
  LET x == Get(data, "x", 0)
      y == Get(data, "y", 0)
      button == Get(data, "button", "left")
  IN [ActionFromDict(self, data, now) EXCEPT
        !.x = x, !.y = y, !.button = button,
        !.description = ClickDescription(button, x, y)]

DelayToDict(self) == ActionToDict(self) @@ [wait_time |-> self.wait_time]
DelayFromDict(self, data, now) ==
  LET wait_time == Get(data, "wait_time", 10)
  IN [ActionFromDict(self, data, now) EXCEPT
        !.wait_time = wait_time, !.description = DelayDescription(wait_time)]

HotkeyToDict(self) == ActionToDict(self) @@ [keys |-> self.keys]
HotkeyFromDict(self, data, now) ==
  LET keys == Get(data, "keys", <<>>)
  IN [ActionFromDict(self, data, now) EXCEPT
        !.keys = keys, !.description = HotkeyDescription(keys)]

SpecialKeyToDict(self) == ActionToDict(self) @@ [key |-> self.key]
SpecialKeyFromDict(self, data, now) ==
  LET key == Get(data, "key", "enter")
  IN [ActionFromDict(self, data, now) EXCEPT
        !.key = key, !.description = SpecialKeyDescription(key)]

ScrollToDict(self) ==
  ActionToDict(self) @@ [x |-> self.x, y |-> self.y, clicks |-> self.clicks,
                         direction |-> self.direction]
ScrollFromDict(self, data, now) ==
  LET x == Get(data, "x", 0)
      y == Get(data, "y", 0)
      clicks == Get(data, "clicks", 3)
      direction == Get(data, "direction", "up")
  IN [ActionFromDict(self, data, now) EXCEPT
        !.x = x, !.y = y, !.clicks = clicks, !.direction = direction,
        !.description = ScrollDescription(direction, clicks, x, y)]

\* a Drag dictionary written without the button
DragToDict_NoButton(self) ==
  ActionToDict(self) @@ [start_x |-> self.start_x, start_y |-> self.start_y,
                         end_x |-> self.end_x, end_y |-> self.end_y,
                         duration |-> self.duration]

DragToDict(self) ==
  ActionToDict(self) @@ [start_x |-> self.start_x, start_y |-> self.start_y,
                         end_x |-> self.end_x, end_y |-> self.end_y,
                         duration |-> self.duration, button |-> self.button]
DragFromDict(self, data, now) ==
  LET sx == Get(data, "start_x", 0)
      sy == Get(data, "start_y", 0)
      ex == Get(data, "end_x", 0)
      ey == Get(data, "end_y", 0)
  IN [ActionFromDict(self, data, now) EXCEPT
        !.start_x = sx, !.start_y = sy, !.end_x = ex, !.end_y = ey,
        !.duration = Get(data, "duration", 10),
        !.button = Get(data, "button", "left"),
        !.description = DragDescription(sx, sy, ex, ey)]

\* self.to_dict(), dispatched on the class of self
to_dict(self) ==
  CASE self.cls = "TypeAction" -> TypeToDict(self)
    [] self.cls = "ClickAction" -> ClickToDict(self)
    [] self.cls = "DelayAction" -> DelayToDict(self)
    [] self.cls = "HotkeyAction" -> HotkeyToDict(self)
    [] self.cls = "SpecialKeyAction" -> SpecialKeyToDict(self)
    [] self.cls = "ScrollAction" -> ScrollToDict(self)
    [] self.cls = "DragAction" -> DragToDict(self)

\* self.from_dict(data), dispatched on the class of self
from_dict(self, data, now) ==
  CASE self.cls = "TypeAction" -> TypeFromDict(self, data, now)
    [] self.cls = "ClickAction" -> ClickFromDict(self, data, now)
    [] self.cls = "DelayAction" -> DelayFromDict(self, data, now)
    [] self.cls = "HotkeyAction" -> HotkeyFromDict(self, data, now)
    [] self.cls = "SpecialKeyAction" -> SpecialKeyFromDict(self, data, now)
    [] self.cls = "ScrollAction" -> ScrollFromDict(self, data, now)
    [] self.cls = "DragAction" -> DragFromDict(self, data, now)

VariantNames ==
  {"TypeAction", "ClickAction", "DelayAction", "HotkeyAction",
   "SpecialKeyAction", "ScrollAction", "DragAction"}

\* the ValueError raised for an unknown discriminant
UnknownActionType == [error |-> "Unknown action type"]

\* the constructor call Action.create_from_dict makes for each discriminant
Construct(data, now) ==
  LET action_type == Get(data, "type", None)
  IN CASE action_type = "TypeAction" ->
            TypeAction(Get(data, "text", <<>>), 0, now)
       [] action_type = "ClickAction" ->
            ClickAction(Get(data, "x", 0), Get(data, "y", 0),
                        Get(data, "button", "left"), 0, now)
       [] action_type = "DelayAction" ->
            DelayAction(Get(data, "wait_time", 10), now)
       [] action_type = "HotkeyAction" ->
            HotkeyAction(Get(data, "keys", <<>>), 0, now)
       [] action_type = "SpecialKeyAction" ->
            SpecialKeyAction(Get(data, "key", "enter"), 0, now)
       [] action_type = "ScrollAction" ->
            ScrollAction(Get(data, "x", 0), Get(data, "y", 0),
                         Get(data, "clicks", 3), Get(data, "direction", "up"),
                         0, now)
       [] action_type = "DragAction" ->
            DragAction(Get(data, "start_x", 0), Get(data, "start_y", 0),
                       Get(data, "end_x", 0), Get(data, "end_y", 0),
                       Get(data, "duration", 10), "left", 0, now)
       [] OTHER -> UnknownActionType

\* Action.create_from_dict
\* a factory that builds a Type action when it does not know the discriminant
create_from_dict_Lenient(data, now) ==
  IF Get(data, "type", None) \in VariantNames
  THEN from_dict(Construct(data, now), data, now)
  ELSE TypeFromDict(TypeAction(<<>>, 0, now), data, now)

create_from_dict(data, now) ==
  IF Get(data, "type", None) \in VariantNames
  THEN from_dict(Construct(data, now), data, now)
  ELSE UnknownActionType

\* a copy that is given an id of its own
clone_MintsId(self, now) ==
  [create_from_dict(to_dict(self), now) EXCEPT !.id = "copy"]

\* Action.clone
clone(self, now) == create_from_dict(to_dict(self), now)

\* Action.execute: impl is what the variant's operation does when it runs
\* ("ok": returns True, "false": returns False, "exception": the input
\* collaborator raises).  The result is "ok", "false" or "error" (ActionError).
ActionExecute(action, impl) ==
  IF ~action.enabled THEN "ok"
  ELSE IF impl = "exception" THEN "error"
  ELSE impl

ImplBehaviours == {"ok", "false", "exception"}

\* the validate() of each variant
TypeValidate(self) == TRUE
ClickValidate(self) ==
  /\ self.button \in {"left", "right", "middle"}
  /\ self.x >= 0 /\ self.y >= 0
DelayValidate(self) == self.wait_time >= 0
HotkeyValidate(self) == self.keys # <<>>
SpecialKeyValidate(self) == self.key \notin {"", " "}
ScrollValidate(self) ==
  /\ self.clicks > 0
  /\ self.direction \in {"up", "down"}
DragValidate(self) ==
  /\ self.duration > 0
  /\ self.button \in {"left", "right", "middle"}

\* action.validate(), dispatched on the class of the action
validate(self) ==
  CASE self.cls = "TypeAction" -> TypeValidate(self)
    [] self.cls = "ClickAction" -> ClickValidate(self)
    [] self.cls = "DelayAction" -> DelayValidate(self)
    [] self.cls = "HotkeyAction" -> HotkeyValidate(self)
    [] self.cls = "SpecialKeyAction" -> SpecialKeyValidate(self)
    [] self.cls = "ScrollAction" -> ScrollValidate(self)
    [] self.cls = "DragAction" -> DragValidate(self)

\* ------------------------------------------- ActionSequence: list operations
\* add_action
add_action(actions, action) == Append(actions, action)

\* a range test that lets an index of len through
InRange_UpToLen(actions, index) == 0 <= index /\ index <= Len(actions)

\* lines 489 and 498: the range test, which is what the call returns
InRange(actions, index) == 0 <= index /\ index < Len(actions)

\* remove_action: the list afterwards (unchanged when index is out of range)
remove_action(actions, index) ==
  IF InRange(actions, index) THEN Pop(actions, index) ELSE actions

\* move_action: the list afterwards (unchanged when an index is out of range)
move_action(actions, from_index, to_index) ==
  IF InRange(actions, from_index) /\ InRange(actions, to_index)
  THEN Insert(Pop(actions, from_index), to_index, actions[from_index + 1])
  ELSE actions

\* clear
clear(actions) == <<>>

\* ActionSequence.validate: the list of error messages
RECURSIVE InvalidMessages(_, _)
InvalidMessages(actions, i) ==
  IF i >= Len(actions) THEN <<>>
  ELSE (IF validate(actions[i + 1]) THEN <<>> ELSE <<<<"invalid", i + 1>>>>)
         \o InvalidMessages(actions, i + 1)

\* the check that forgets the empty list
SequenceValidate_NoEmpty(actions) == InvalidMessages(actions, 0)

SequenceValidate(actions) ==
  (IF actions = <<>> THEN <<<<"empty", 0>>>> ELSE <<>>)
    \o InvalidMessages(actions, 0)

\* ------------------------------------------------------------------- state
VARIABLES
  seq,     \* the ActionSequence: actions, configuration and runtime fields
  frame,   \* per thread: the activation of ActionSequence.execute
  obs,     \* per thread: what the run has done so far (observation only)
  app,     \* PlaybianAutoTyper: is_running, buttons, Tk after-queue, callers
  tok,     \* the tokenizer call: text and parts
  rt,      \* the serialization round trip: original, dictionary, rebuilt
  act,     \* one call of Action.execute: the action, its position, its effects
  chk,     \* one call of validate(): the object examined and the result
  ai,      \* the AI pipeline: provider text, transport, parser, AIResponse
  ld,      \* loading a sequence file: the decoded data and the sequence built
  stops    \* per thread: the actions it began after a stop request against
           \* its run, -1 while there is no such request (observation only)

vars == <<seq, frame, obs, app, tok, rt, act, chk, ai, ld, stops>>

Threads == 1..MaxWorkers

NoAction == [cls |-> "None"]

\* sample actions: built by the constructors, or loaded from a dictionary
SampleType == TypeAction(<<"h", "i">>, 5, 0)
SampleDisabled == [ClickAction(1, 2, "left", 0, 0) EXCEPT !.enabled = FALSE]
SampleInvalid == ClickAction(-1, 2, "left", 0, 0)

Lists(S, n) == UNION {[1..k -> S] : k \in 0..n}

\* ActionSequence.__init__
NewSequence ==
  [actions |-> <<>>, loop_enabled |-> FALSE, loop_count |-> 1,
   repeat_interval |-> 0, stop_on_error |-> TRUE,
   is_running |-> FALSE, current_action_index |-> 0, current_loop |-> 0]

\* a thread that is not inside execute()
IdleFrame ==
  [pc |-> "idle", loop_index |-> -1, loop_count |-> 0, total_actions |-> 0,
   it |-> 0, action_index |-> -1, action |-> NoAction, result |-> "none",
   progress_callback |-> FALSE, stop_check |-> FALSE, countdown |-> 0]

NoEvent == [ev |-> "none", loop |-> -1, idx |-> -1]
Event(e, l, i) == [ev |-> e, loop |-> l, idx |-> i]

NoObs ==
  [iter |-> <<>>, nexec |-> 0, failed |-> FALSE, markers |-> <<>>,
   sleeps |-> <<>>, last |-> NoEvent, last_poll |-> NoEvent, npolls |-> 0,
   polled_true |-> FALSE, false_after_true |-> FALSE, detail |-> TRUE]

\* the record of a thread whose run is not observed
CoarseObs == [NoObs EXCEPT !.detail = FALSE]

\* obs after a step of thread w that the detailed record notes as o
Note(w, o) == [obs EXCEPT ![w] = IF obs[w].detail THEN o ELSE obs[w]]

\* pc values of a thread inside the body of execute()
InExecute ==
  {"for_loop", "loop_poll", "for_action", "act_poll", "progress", "exec",
   "between", "sleep", "finally"}

\* ------------------------------------------- ActionSequence.execute, by step
\* the set-up that takes loop_count whatever loop_enabled is
Execute_AlwaysLoops(w, pcb, sc) ==
  /\ frame[w].pc = "idle"
  /\ seq' = [seq EXCEPT !.is_running = TRUE]
  /\ frame' = [frame EXCEPT ![w] =
       [IdleFrame EXCEPT
          !.pc = "for_loop",
          !.total_actions = Len(seq.actions),
          !.loop_count = seq.loop_count,
          !.progress_callback = pcb,
          !.stop_check = sc]]
  /\ UNCHANGED obs

\* lines 527-531: is_running = True, total_actions, effective loop count
Execute(w, pcb, sc) ==
  /\ frame[w].pc = "idle"
  /\ seq' = [seq EXCEPT !.is_running = TRUE]
  /\ frame' = [frame EXCEPT ![w] =
       [IdleFrame EXCEPT
          !.pc = "for_loop",
          !.total_actions = Len(seq.actions),
          !.loop_count = IF seq.loop_enabled THEN seq.loop_count ELSE 1,
          !.progress_callback = pcb,
          !.stop_check = sc]]
  /\ UNCHANGED obs

\* the poll `stop_check and stop_check()`, p being what the predicate returns
Polled(w, p) == frame[w].stop_check /\ p

ObservePoll(w, o, p, e) ==
  IF frame[w].stop_check
  THEN [o EXCEPT
          !.last = e,
          !.last_poll = e,
          !.npolls = @ + 1,
          !.polled_true = @ \/ p,
          !.false_after_true = @ \/ (o.polled_true /\ ~p)]
  ELSE o

\* line 533-534: next loop_index of range(loop_count); current_loop
ForLoop(w) ==
  /\ frame[w].pc = "for_loop"
  /\ IF frame[w].loop_index + 1 < frame[w].loop_count
     THEN /\ frame' = [frame EXCEPT ![w].loop_index = @ + 1,
                                    ![w].pc = "loop_poll"]
          /\ seq' = [seq EXCEPT !.current_loop = frame[w].loop_index + 2]
          /\ obs' = Note(w, [obs[w] EXCEPT !.iter = <<>>])
     ELSE /\ frame' = [frame EXCEPT ![w].result = "true",
                                    ![w].pc = "finally"]
          /\ UNCHANGED <<seq, obs>>

\* lines 536-537: the poll at the start of a loop iteration
LoopPoll(w, p) ==
  /\ frame[w].pc = "loop_poll"
  /\ obs' = Note(w, ObservePoll(w, obs[w], p,
                                 Event("loop_poll", frame[w].loop_index, -1)))
  /\ IF Polled(w, p)
     THEN frame' = [frame EXCEPT ![w].result = "true", ![w].pc = "finally"]
     ELSE frame' = [frame EXCEPT ![w].it = 0, ![w].pc = "for_action"]
  /\ UNCHANGED seq

\* lines 539-540: next element of enumerate(self.actions); current_action_index
ForAction(w) ==
  /\ frame[w].pc = "for_action"
  /\ IF frame[w].it < Len(seq.actions)
     THEN /\ frame' = [frame EXCEPT
                         ![w].action_index = frame[w].it,
                         ![w].action = seq.actions[frame[w].it + 1],
                         ![w].it = @ + 1,
                         ![w].pc = "act_poll"]
          /\ seq' = [seq EXCEPT !.current_action_index = frame[w].it]
     ELSE /\ frame' = [frame EXCEPT ![w].pc = "between"]
          /\ UNCHANGED seq
  /\ UNCHANGED obs

\* the poll at the start of an action, its result ignored
ActPoll_NoBreak(w, p) ==
  /\ frame[w].pc = "act_poll"
  /\ obs' = Note(w, ObservePoll(w, obs[w], p,
         Event("act_poll", frame[w].loop_index, frame[w].action_index)))
  /\ frame' = [frame EXCEPT ![w].pc = "progress"]
  /\ UNCHANGED seq

\* lines 542-543: the poll at the start of an action
ActPoll(w, p) ==
  /\ frame[w].pc = "act_poll"
  /\ obs' = Note(w, ObservePoll(w, obs[w], p,
         Event("act_poll", frame[w].loop_index, frame[w].action_index)))
  /\ IF Polled(w, p)
     THEN frame' = [frame EXCEPT ![w].pc = "between"]
     ELSE frame' = [frame EXCEPT ![w].pc = "progress"]
  /\ UNCHANGED seq

\* the arguments with the loop counted from 1
ProgressArgs_OneBased(w) ==
  <<frame[w].loop_index + 1, frame[w].loop_count, frame[w].action_index,
    frame[w].total_actions, frame[w].action>>

\* line 546: the arguments progress_callback is called with
ProgressArgs(w) ==
  <<frame[w].loop_index, frame[w].loop_count, frame[w].action_index,
    frame[w].total_actions, frame[w].action>>

\* lines 545-546: progress_callback for the action; raises when the
\* callback raises, which leaves execute() through the finally block
Progress(w, raises) ==
  /\ frame[w].pc = "progress"
  /\ IF frame[w].progress_callback
     THEN IF raises
          THEN /\ frame' = [frame EXCEPT ![w].result = "raised",
                                         ![w].pc = "finally"]
               /\ UNCHANGED obs
          ELSE /\ frame' = [frame EXCEPT ![w].pc = "exec"]
               /\ obs' = Note(w, [obs[w] EXCEPT !.last =
                    Event("progress", ProgressArgs(w)[1], ProgressArgs(w)[3])])
     ELSE /\ frame' = [frame EXCEPT ![w].pc = "exec"]
          /\ UNCHANGED obs
  /\ UNCHANGED seq

\* a False result ending the run whatever stop_on_error is
StopsOnFalse_Always(outcome) == outcome = "false"

\* an ActionError never ending the run
StopsOnError_Never(outcome) == FALSE

\* lines 550 and 555: does this outcome end the run
StopsOnFalse(outcome) == outcome = "false" /\ seq.stop_on_error
StopsOnError(outcome) == outcome = "error" /\ seq.stop_on_error

\* a failed action executed again instead of moving on
Exec_Retry(w, impl) ==
  LET outcome == ActionExecute(frame[w].action, impl)
  IN /\ frame[w].pc = "exec"
     /\ obs' = Note(w, [obs[w] EXCEPT
          !.iter = Append(@, frame[w].action_index),
          !.nexec = @ + 1,
          !.failed = @ \/ outcome # "ok",
          !.last = Event("exec", frame[w].loop_index, frame[w].action_index)])
     /\ IF StopsOnFalse(outcome) \/ StopsOnError(outcome)
        THEN frame' = [frame EXCEPT ![w].result = "false", ![w].pc = "finally"]
        ELSE IF outcome # "ok" /\ ~obs[w].failed
        THEN frame' = frame
        ELSE frame' = [frame EXCEPT ![w].pc = "for_action"]
     /\ UNCHANGED seq

\* lines 548-556: action.execute() and the stop_on_error policy
Exec(w, impl) ==
  LET outcome == ActionExecute(frame[w].action, impl)
  IN /\ frame[w].pc = "exec"
     /\ obs' = Note(w, [obs[w] EXCEPT
          !.iter = Append(@, frame[w].action_index),
          !.nexec = @ + 1,
          !.failed = @ \/ outcome # "ok",
          !.last = Event("exec", frame[w].loop_index, frame[w].action_index)])
     /\ IF StopsOnFalse(outcome) \/ StopsOnError(outcome)
        THEN frame' = [frame EXCEPT ![w].result = "false", ![w].pc = "finally"]
        ELSE frame' = [frame EXCEPT ![w].pc = "for_action"]
     /\ UNCHANGED seq

\* the inter-loop wait taken after the last iteration too
WaitsBetweenLoops_AfterLast(w) ==
  /\ seq.loop_enabled
  /\ frame[w].loop_index < frame[w].loop_count
  /\ seq.repeat_interval > 0

\* line 559: is there an inter-loop wait after this iteration
WaitsBetweenLoops(w) ==
  /\ seq.loop_enabled
  /\ frame[w].loop_index < frame[w].loop_count - 1
  /\ seq.repeat_interval > 0

\* lines 559-561: the inter-loop marker progress_callback(.., -1, .., None)
Between(w, raises) ==
  /\ frame[w].pc = "between"
  /\ IF WaitsBetweenLoops(w)
     THEN IF frame[w].progress_callback
          THEN IF raises
               THEN /\ frame' = [frame EXCEPT ![w].result = "raised",
                                              ![w].pc = "finally"]
                    /\ UNCHANGED obs
               ELSE /\ frame' = [frame EXCEPT ![w].pc = "sleep"]
                    /\ obs' = Note(w, [obs[w] EXCEPT
                         !.markers = Append(@, frame[w].loop_index),
                         !.last = Event("marker", frame[w].loop_index, -1)])
          ELSE /\ frame' = [frame EXCEPT ![w].pc = "sleep"]
               /\ UNCHANGED obs
     ELSE /\ frame' = [frame EXCEPT ![w].pc = "for_loop"]
          /\ UNCHANGED obs
  /\ UNCHANGED seq

\* line 562: time.sleep(self.repeat_interval)
Sleep(w) ==
  /\ frame[w].pc = "sleep"
  /\ obs' = Note(w, [obs[w] EXCEPT
       !.sleeps = Append(@, <<frame[w].loop_index, seq.repeat_interval>>),
       !.last = Event("sleep", frame[w].loop_index, -1)])
  /\ frame' = [frame EXCEPT ![w].pc = "for_loop"]
  /\ UNCHANGED seq

\* a finally block that forgets the two index fields
Finally_FlagOnly(w) ==
  /\ frame[w].pc = "finally"
  /\ seq' = [seq EXCEPT !.is_running = FALSE]
  /\ frame' = [frame EXCEPT ![w].pc = "done"]
  /\ UNCHANGED obs

\* lines 565-568: the finally block, then the return (or the re-raise)
Finally(w) ==
  /\ frame[w].pc = "finally"
  /\ seq' = [seq EXCEPT !.is_running = FALSE,
                        !.current_action_index = 0,
                        !.current_loop = 0]
  /\ frame' = [frame EXCEPT ![w].pc = "done"]
  /\ UNCHANGED obs

\* ------------------------------------------------ specification: the engine
\* One caller runs execute() once on a sequence it has configured, with an
\* arbitrary stop predicate, arbitrary action outcomes and callbacks that
\* may raise.
EngineActions == {SampleType, SampleDisabled}
Intervals == {0, 20}

\* PlaybianAutoTyper.__init__: not running, no callback pending, both
\* threads that may call a handler (the Tk thread "ui", the global-hotkey
\* thread "hotkey") outside start_automation
Callers == {"ui", "hotkey"}
IdleApp ==
  [is_running |-> FALSE, start_btn |-> TRUE, stop_btn |-> FALSE, after |-> 0,
   loop_var |-> FALSE, loop_count_var |-> 1, repeat_interval_var |-> 0,
   countdown_var |-> TRUE, at |-> [c \in Callers |-> "idle"]]

NoTok == [text |-> <<>>, parts |-> <<>>, state |-> "off"]
NoDict == [type |-> None]
NoRt == [state |-> "off", clock |-> 0, a |-> NoAction, d |-> NoDict,
         b |-> NoAction, rebuilt_at |-> 0]
NoAct == [pc |-> "off"]
NoChk == [state |-> "off"]
NoAi == [pc |-> "off"]
NoLd == [state |-> "off"]
NoStops == [w \in Threads |-> -1]

Init ==
  /\ \E acts \in Lists(EngineActions, MaxActions), le \in BOOLEAN,
        lc \in 1..MaxLoops, ri \in Intervals, soe \in BOOLEAN :
       seq = [NewSequence EXCEPT
                !.actions = acts, !.loop_enabled = le, !.loop_count = lc,
                !.repeat_interval = ri, !.stop_on_error = soe]
  /\ frame = [w \in Threads |-> IdleFrame]
  /\ obs = [w \in Threads |-> NoObs]
  /\ app = IdleApp
  /\ tok = NoTok
  /\ rt = NoRt
  /\ act = NoAct /\ chk = NoChk /\ ai = NoAi /\ ld = NoLd /\ stops = NoStops

\* the thread that calls execute() in this specification
Caller == CHOOSE w \in Threads : \A v \in Threads : w <= v

Next ==
  /\ UNCHANGED <<app, tok, rt, act, chk, ai, ld, stops>>
  /\ \/ \E pcb \in BOOLEAN, sc \in BOOLEAN : Execute(Caller, pcb, sc)
     \/ ForLoop(Caller)
     \/ \E p \in BOOLEAN : LoopPoll(Caller, p)
     \/ ForAction(Caller)
     \/ \E p \in BOOLEAN : ActPoll(Caller, p)
     \/ \E raises \in BOOLEAN : Progress(Caller, raises)
     \/ \E impl \in ImplBehaviours : Exec(Caller, impl)
     \/ \E raises \in BOOLEAN : Between(Caller, raises)
     \/ Sleep(Caller)
     \/ Finally(Caller)

Spec == Init /\ [][Next]_vars

\* ------------------------------------------------------ claims: the engine
Iota(k) == [i \in 1..k |-> i - 1]
SleepsUpTo(k) == [i \in 1..k |-> <<i - 1, seq.repeat_interval>>]
Returned(w) == frame[w].pc = "done"
InnerLoop == {"loop_poll", "for_action", "act_poll", "progress", "exec", "between"}

\* C1: whenever execute() has ended, on any exit path, is_running is false
\* and current_action_index and current_loop are both 0.
C1_RuntimeReset ==
  Returned(Caller) =>
    /\ seq.is_running = FALSE
    /\ seq.current_action_index = 0
    /\ seq.current_loop = 0

\* execute() ended because a progress callback raised in the second loop
C1_Witness ==
  /\ Returned(Caller)
  /\ frame[Caller].result = "raised"
  /\ frame[Caller].loop_index = 1
  /\ obs[Caller].nexec >= 2

\* C2: under stop_on_error, once an executed action has failed (ActionError
\* or a False result) no further action is executed, no inter-loop marker is
\* emitted, no inter-loop sleep is taken, and execute() returns false.
C2_StopOnErrorAbort ==
  [][(obs[Caller].failed /\ seq.stop_on_error) =>
       /\ obs'[Caller].nexec = obs[Caller].nexec
       /\ obs'[Caller].markers = obs[Caller].markers
       /\ obs'[Caller].sleeps = obs[Caller].sleeps
       /\ frame'[Caller].pc \in {"finally", "done"}
       /\ frame'[Caller].result = "false"]_vars

\* three actions, looping with a pause: the second one failed, the third
\* never ran, no marker was emitted, the result is false
C2_Witness ==
  /\ Returned(Caller)
  /\ Len(seq.actions) = 3
  /\ seq.stop_on_error /\ seq.loop_enabled /\ seq.repeat_interval > 0
  /\ frame[Caller].loop_count = 3
  /\ frame[Caller].progress_callback
  /\ obs[Caller].failed
  /\ obs[Caller].iter = <<0, 1>>
  /\ obs[Caller].nexec = 2
  /\ obs[Caller].markers = <<>>
  /\ frame[Caller].result = "false"

\* C3: with stop_on_error false, no true poll and no raising callback, every
\* iteration executes the actions of the list once each, in list order,
\* whichever of them fail, and execute() returns true.
C3_ContinueOnError ==
  (~seq.stop_on_error /\ ~obs[Caller].polled_true
     /\ frame[Caller].result # "raised") =>
    /\ obs[Caller].iter = Iota(Len(obs[Caller].iter))
    /\ frame[Caller].pc = "exec" =>
         /\ Len(obs[Caller].iter) = frame[Caller].action_index
         /\ frame[Caller].action = seq.actions[frame[Caller].action_index + 1]
    /\ frame[Caller].pc \in {"between", "sleep"} =>
         obs[Caller].iter = Iota(Len(seq.actions))
    /\ Returned(Caller) =>
         /\ frame[Caller].result = "true"
         /\ obs[Caller].nexec = frame[Caller].loop_count * Len(seq.actions)

\* three actions, two iterations, some action failed, all six executions done
C3_Witness ==
  /\ Returned(Caller)
  /\ ~seq.stop_on_error /\ ~obs[Caller].polled_true
  /\ frame[Caller].stop_check
  /\ Len(seq.actions) = 3
  /\ frame[Caller].loop_count = 2
  /\ obs[Caller].failed
  /\ obs[Caller].nexec = 6
  /\ frame[Caller].result = "true"

\* C6: the predicate is polled once at the start of each loop iteration and
\* once at the start of each action, and nowhere else; while no poll has
\* returned false after a poll returned true, no action is executed.
C6_PollPoints ==
  frame[Caller].stop_check =>
    /\ (frame[Caller].pc = "for_action" /\ frame[Caller].it = 0) =>
         obs[Caller].last_poll = Event("loop_poll", frame[Caller].loop_index, -1)
    /\ frame[Caller].pc \in {"progress", "exec"} =>
         obs[Caller].last_poll =
           Event("act_poll", frame[Caller].loop_index, frame[Caller].action_index)
    /\ (Returned(Caller) /\ ~obs[Caller].polled_true
          /\ frame[Caller].result = "true") =>
         obs[Caller].npolls =
           frame[Caller].loop_count * (1 + Len(seq.actions))

C6_Cancellation ==
  []C6_PollPoints
  /\ [][(obs[Caller].polled_true /\ ~obs'[Caller].false_after_true) =>
          obs'[Caller].nexec = obs[Caller].nexec]_vars
  /\ [][obs'[Caller].npolls # obs[Caller].npolls =>
          frame[Caller].pc \in {"loop_poll", "act_poll"}]_vars

\* the first iteration was cut at its second action by a true poll, and the
\* poll at the start of the second iteration ended the run
C6_Witness ==
  /\ Returned(Caller)
  /\ Len(seq.actions) >= 2
  /\ frame[Caller].loop_count >= 2
  /\ obs[Caller].polled_true /\ ~obs[Caller].false_after_true
  /\ obs[Caller].nexec = 1
  /\ obs[Caller].last_poll = Event("loop_poll", 1, -1)

\* C7: looping over n iterations with a positive repeat_interval, a progress
\* callback, no true poll, no abort and no raising callback: the marker is
\* emitted once after each iteration but the last, each one followed by a
\* sleep of repeat_interval before the next iteration starts, n-1 in all.
C7_Applies ==
  /\ seq.loop_enabled /\ seq.repeat_interval > 0
  /\ frame[Caller].progress_callback
  /\ ~obs[Caller].polled_true
  /\ frame[Caller].result \notin {"raised", "false"}

C7_InterLoopMarkers ==
  C7_Applies =>
    /\ frame[Caller].pc \in InnerLoop =>
         /\ obs[Caller].markers = Iota(frame[Caller].loop_index)
         /\ obs[Caller].sleeps = SleepsUpTo(frame[Caller].loop_index)
    /\ frame[Caller].pc = "sleep" =>
         /\ obs[Caller].markers = Iota(frame[Caller].loop_index + 1)
         /\ obs[Caller].sleeps = SleepsUpTo(frame[Caller].loop_index)
         /\ obs[Caller].iter = Iota(Len(seq.actions))
         /\ frame[Caller].loop_index < frame[Caller].loop_count - 1
    /\ frame[Caller].pc = "for_loop" =>
         LET k == Min(frame[Caller].loop_index + 1, frame[Caller].loop_count - 1)
         IN /\ obs[Caller].markers = Iota(k)
            /\ obs[Caller].sleeps = SleepsUpTo(k)
    /\ Returned(Caller) =>
         /\ obs[Caller].markers = Iota(frame[Caller].loop_count - 1)
         /\ obs[Caller].sleeps = SleepsUpTo(frame[Caller].loop_count - 1)

\* loop_count = 3: the marker fired after iterations 0 and 1 only
C7_Witness ==
  /\ Returned(Caller)
  /\ C7_Applies
  /\ frame[Caller].loop_count = 3
  /\ Len(seq.actions) >= 1
  /\ obs[Caller].markers = <<0, 1>>
  /\ obs[Caller].sleeps = <<<<0, 20>>, <<1, 20>>>>

\* C8: execute() returns false exactly when stop_on_error is set and an
\* executed action failed; every other return is true (a raising callback
\* makes execute() raise instead of return).
C8_ResultIsAbort ==
  Returned(Caller) =>
    /\ frame[Caller].result \in {"true", "false", "raised"}
    /\ frame[Caller].result = "false" <=>
         (seq.stop_on_error /\ obs[Caller].failed)
    /\ frame[Caller].result = "raised" => frame[Caller].progress_callback

\* a run with a failed action, cut short by the stop predicate, returned true
C8_Witness ==
  /\ Returned(Caller)
  /\ frame[Caller].result = "true"
  /\ obs[Caller].failed
  /\ obs[Caller].polled_true
  /\ ~seq.stop_on_error

\* a run over an empty list returned true
C8_WitnessEmpty ==
  /\ Returned(Caller)
  /\ frame[Caller].result = "true"
  /\ seq.actions = <<>>
  /\ seq.stop_on_error

\* the effective loop count of line 531
EffectiveLoopCount == IF seq.loop_enabled THEN seq.loop_count ELSE 1

\* the step in which the progress callback is called for an action
CallsProgress(w) ==
  /\ frame[w].pc = "progress"
  /\ frame[w].progress_callback
  /\ frame'[w].pc = "exec"

\* the step in which an action's execute() runs
CallsExecute(w) == frame[w].pc = "exec" /\ obs'[w].nexec = obs[w].nexec + 1

\* C24: the progress callback for an action is called with (loop_index,
\* effective loop count, i, total_actions, action), loop_index counted from 0
\* and current_action_index already i, directly after that action's stop
\* poll; the action's execute() is the next thing to happen after its
\* callback, so each executed action has exactly one callback before it; and
\* a poll that returns true leads to neither.
C24_ProgressBeforeExecute ==
  /\ [](obs[Caller].last.ev = "progress" => frame[Caller].pc = "exec")
  /\ [][LET w == Caller
            l == seq.current_loop - 1
            i == seq.current_action_index
        IN /\ CallsProgress(w) =>
                /\ ProgressArgs(w) =
                     <<l, EffectiveLoopCount, i, Len(seq.actions), seq.actions[i + 1]>>
                /\ l \in 0..(EffectiveLoopCount - 1)
                /\ obs'[w].last = Event("progress", l, i)
                /\ frame[w].stop_check => obs[w].last = Event("act_poll", l, i)
           /\ CallsExecute(w) =>
                /\ frame[w].action = seq.actions[i + 1]
                /\ frame[w].progress_callback =>
                     obs[w].last = Event("progress", l, i)
                /\ (~frame[w].progress_callback /\ frame[w].stop_check) =>
                     obs[w].last = Event("act_poll", l, i)
           /\ (ActPoll(w, TRUE) /\ frame[w].stop_check) =>
                /\ frame'[w].pc = "between"
                /\ obs'[w].nexec = obs[w].nexec
                /\ obs'[w].last = Event("act_poll", l, i)]_vars

\* the callback for the second action of the second loop has been called
\* after a poll, and the action is about to run
C24_Witness ==
  /\ frame[Caller].pc = "exec"
  /\ frame[Caller].stop_check
  /\ obs[Caller].last = Event("progress", 1, 1)
  /\ obs[Caller].npolls >= 4
  /\ obs[Caller].nexec >= 2

\* a poll returned true at the second action, which was left out
C24_WitnessStopped ==
  /\ frame[Caller].pc = "between"
  /\ frame[Caller].progress_callback
  /\ obs[Caller].polled_true
  /\ obs[Caller].last = Event("act_poll", 0, 1)
  /\ obs[Caller].nexec = 1

\* execute() returned True without any poll having returned true
RanToTheEnd(w) ==
  /\ Returned(w)
  /\ frame[w].result = "true"
  /\ ~obs[w].polled_true

\* C25: the list is traversed loop_count times when loop_enabled is true and
\* once when it is false, whatever loop_count is: the loop index never
\* reaches the effective count, a run that is neither stopped nor aborted
\* executes every action in each of these iterations, and with loop_enabled
\* false there is no inter-loop marker and no repeat_interval pause.
C25_LoopIterations ==
  LET w == Caller
  IN /\ frame[w].pc \in InExecute \cup {"done"} =>
          /\ frame[w].loop_count = EffectiveLoopCount
          /\ frame[w].loop_index < EffectiveLoopCount
     /\ RanToTheEnd(w) =>
          /\ frame[w].loop_index = EffectiveLoopCount - 1
          /\ obs[w].nexec = EffectiveLoopCount * Len(seq.actions)
          /\ obs[w].iter = Iota(Len(seq.actions))
     /\ ~seq.loop_enabled =>
          /\ obs[w].markers = <<>>
          /\ obs[w].sleeps = <<>>
          /\ frame[w].pc # "sleep"
          /\ obs[w].nexec <= Len(seq.actions)

\* looping off with loop_count 3 and a repeat interval: one traversal
C25_Witness ==
  /\ RanToTheEnd(Caller)
  /\ ~seq.loop_enabled
  /\ seq.loop_count = 3
  /\ seq.repeat_interval > 0
  /\ frame[Caller].progress_callback
  /\ Len(seq.actions) = 2
  /\ obs[Caller].nexec = 2

\* looping on with loop_count 3: three traversals
C25_WitnessLooping ==
  /\ RanToTheEnd(Caller)
  /\ seq.loop_enabled
  /\ seq.loop_count = 3
  /\ Len(seq.actions) = 2
  /\ obs[Caller].nexec = 6

\* C32: once a poll at an action start has returned true, and while no
\* later poll returns false, the run makes no progress callback, emits no
\* inter-loop marker and takes no repeat_interval sleep.
C32_NothingAfterCancellation ==
  [][(obs[Caller].polled_true /\ ~obs'[Caller].false_after_true) =>
       /\ obs'[Caller].markers = obs[Caller].markers
       /\ obs'[Caller].sleeps = obs[Caller].sleeps
       /\ frame'[Caller].pc # "sleep"
       /\ obs'[Caller].last.ev = "progress" => obs'[Caller].last = obs[Caller].last]_vars

\* the step in which the executing action's implementation raises (the input
\* library's fail-safe abort is such an exception, actions.py line 13)
RaisedInAction(w) ==
  /\ frame[w].pc = "exec"
  /\ ActionExecute(frame[w].action, "exception") = "error"
  /\ Exec(w, "exception")

\* C36: an exception raised while an action is executing ends the run,
\* whatever stop_on_error is: the run goes to its end and executes no later
\* action.
C36_FailSafeEndsRun ==
  [][RaisedInAction(Caller) => frame'[Caller].pc = "finally"]_vars

\* -------------------------------------------------- special-key tokenizer
\* config.SPECIAL_KEYS, each token as its sequence of characters
SPECIAL_KEYS ==
  (<<"<", "e", "n", "t", "e", "r", ">">> :> "enter")
  @@ (<<"<", "t", "a", "b", ">">> :> "tab")
  @@ (<<"<", "s", "p", "a", "c", "e", ">">> :> "space")
  @@ (<<"<", "b", "a", "c", "k", "s", "p", "a", "c", "e", ">">> :> "backspace")
  @@ (<<"<", "d", "e", "l", "e", "t", "e", ">">> :> "delete")
  @@ (<<"<", "e", "s", "c", "a", "p", "e", ">">> :> "escape")
  @@ (<<"<", "s", "h", "i", "f", "t", ">">> :> "shift")
  @@ (<<"<", "c", "t", "r", "l", ">">> :> "ctrl")
  @@ (<<"<", "a", "l", "t", ">">> :> "alt")
  @@ (<<"<", "c", "a", "p", "s", "_", "l", "o", "c", "k", ">">> :> "capslock")
  @@ (<<"<", "p", "a", "g", "e", "_", "u", "p", ">">> :> "pageup")
  @@ (<<"<", "p", "a", "g", "e", "_", "d", "o", "w", "n", ">">> :> "pagedown")
  @@ (<<"<", "h", "o", "m", "e", ">">> :> "home")
  @@ (<<"<", "e", "n", "d", ">">> :> "end")
  @@ (<<"<", "i", "n", "s", "e", "r", "t", ">">> :> "insert")
  @@ (<<"<", "u", "p", ">">> :> "up")
  @@ (<<"<", "d", "o", "w", "n", ">">> :> "down")
  @@ (<<"<", "l", "e", "f", "t", ">">> :> "left")
  @@ (<<"<", "r", "i", "g", "h", "t", ">">> :> "right")
  @@ (<<"<", "f", "1", ">">> :> "f1")
  @@ (<<"<", "f", "2", ">">> :> "f2")
  @@ (<<"<", "f", "3", ">">> :> "f3")
  @@ (<<"<", "f", "4", ">">> :> "f4")
  @@ (<<"<", "f", "5", ">">> :> "f5")
  @@ (<<"<", "f", "6", ">">> :> "f6")
  @@ (<<"<", "f", "7", ">">> :> "f7")
  @@ (<<"<", "f", "8", ">">> :> "f8")
  @@ (<<"<", "f", "9", ">">> :> "f9")
  @@ (<<"<", "f", "1", "0", ">">> :> "f10")
  @@ (<<"<", "f", "1", "1", ">">> :> "f11")
  @@ (<<"<", "f", "1", "2", ">">> :> "f12")

\* str.lower() on one character
Lower(c) ==
  CASE c = "A" -> "a" [] c = "B" -> "b" [] c = "C" -> "c" [] c = "D" -> "d"
    [] c = "E" -> "e" [] c = "F" -> "f" [] c = "G" -> "g" [] c = "H" -> "h"
    [] c = "I" -> "i" [] c = "J" -> "j" [] c = "K" -> "k" [] c = "L" -> "l"
    [] c = "M" -> "m" [] c = "N" -> "n" [] c = "O" -> "o" [] c = "P" -> "p"
    [] c = "Q" -> "q" [] c = "R" -> "r" [] c = "S" -> "s" [] c = "T" -> "t"
    [] c = "U" -> "u" [] c = "V" -> "v" [] c = "W" -> "w" [] c = "X" -> "x"
    [] c = "Y" -> "y" [] c = "Z" -> "z" [] OTHER -> c

\* str.lower()
LowerStr(t) == [k \in 1..Len(t) |-> Lower(t[k])]

\* text.find(c, i): the 0-based index of the first c at or after i, or -1
RECURSIVE Find(_, _, _)
Find(text, c, i) ==
  IF i >= Len(text) THEN -1
  ELSE IF text[i + 1] = c THEN i
  ELSE Find(text, c, i + 1)

\* the flush appending the accumulated text even when there is none
FlushText_Always(parts, current_text) == Append(parts, <<"text", current_text>>)

\* lines 165-167 and 176-177: flush the accumulated literal text, if any
FlushText(parts, current_text) ==
  IF current_text # <<>> THEN Append(parts, <<"text", current_text>>) ELSE parts

\* the span compared as it is written
PossibleKey_AsWritten(text, i, closing_idx) == SubSeq(text, i + 1, closing_idx + 1)

\* line 162: text[i:closing_idx+1].lower()
PossibleKey(text, i, closing_idx) == LowerStr(SubSeq(text, i + 1, closing_idx + 1))

\* the scan resuming one character too far after a key
AfterKey_SkipsOne(closing_idx) == closing_idx + 2

\* line 169: where the scan resumes after a key
AfterKey(closing_idx) == closing_idx + 1

\* the scan resuming one character too far after a literal character
AfterLiteral_SkipsOne(i) == i + 2

\* line 173: where the scan resumes after a literal character, a '<' that
\* opens no registered token included
AfterLiteral(i) == i + 1

\* lines 157-179: the while loop of _parse_text_with_special_keys
RECURSIVE ParseLoop(_, _, _, _)
ParseLoop(text, i, current_text, parts) ==
  IF i >= Len(text) THEN FlushText(parts, current_text)
  ELSE
    LET closing_idx == IF text[i + 1] = "<" THEN Find(text, ">", i) ELSE -1
        isKey == /\ text[i + 1] = "<"
                 /\ closing_idx # -1
                 /\ PossibleKey(text, i, closing_idx) \in DOMAIN SPECIAL_KEYS
    IN IF isKey
       THEN ParseLoop(text, AfterKey(closing_idx), <<>>,
                      Append(FlushText(parts, current_text),
                             <<"key", SPECIAL_KEYS[PossibleKey(text, i, closing_idx)]>>))
       ELSE ParseLoop(text, AfterLiteral(i), Append(current_text, text[i + 1]), parts)

\* TypeAction._parse_text_with_special_keys
ParseTextWithSpecialKeys(text) == ParseLoop(text, 0, <<>>, <<>>)

\* ------------------------------------------- specification: the tokenizer
TokAlphabet == {"<", ">", "u", "p", "U"}
Hello == <<"H", "e", "l", "l", "o">>
World == <<"W", "o", "r", "l", "d">>
EnterToken == <<"<", "e", "n", "t", "e", "r", ">">>
TokSamples ==
  { Hello \o EnterToken \o World,
    <<"a", "<", "b">>,
    <<"<", "b", "o", "g", "u", "s", ">", "o", "k">>,
    <<"<", "b">> \o EnterToken,
    <<"<", "E", "N", "T", "E", "R", ">">>,
    <<"<", "C", "a", "p", "s", "_", "L", "o", "c", "k", ">", "x">>,
    <<"<", "B", "o", "g", "u", "s", ">", "O", "k">>,
    <<"H", "<", "E", "n", "t", "e", "r", ">", "W">>,
    EnterToken \o EnterToken }
TokInputs == Lists(TokAlphabet, MaxTokLen) \cup TokSamples

InitTok ==
  /\ seq = NewSequence
  /\ frame = [w \in Threads |-> IdleFrame]
  /\ obs = [w \in Threads |-> NoObs]
  /\ app = IdleApp
  /\ rt = NoRt
  /\ act = NoAct /\ chk = NoChk /\ ai = NoAi /\ ld = NoLd /\ stops = NoStops
  /\ \E text \in TokInputs : tok = [text |-> text, parts |-> <<>>, state |-> "ready"]

\* the call of the tokenizer on the chosen text
Tokenize ==
  /\ tok.state = "ready"
  /\ tok' = [tok EXCEPT !.parts = ParseTextWithSpecialKeys(tok.text),
                        !.state = "done"]
  /\ UNCHANGED <<seq, frame, obs, app, rt, act, chk, ai, ld, stops>>

NextTok == Tokenize

SpecTok == InitTok /\ [][NextTok]_vars

\* ---------------------------------------------------- claims: the tokenizer
\* The scan as the specification words it, read front to back: at a
\* registered bracketed token emit a key segment and continue after its
\* '>'; otherwise the character is literal and joins the text segment that
\* follows it.
PrependChar(c, segs) ==
  IF segs # <<>> /\ segs[1][1] = "text"
  THEN <<<<"text", <<c>> \o segs[1][2]>>>> \o Tail(segs)
  ELSE <<<<"text", <<c>>>>>> \o segs

RECURSIVE SpecScan(_)
SpecScan(text) ==
  IF text = <<>> THEN <<>>
  ELSE
    LET ends == {j \in 1..Len(text) : text[j] = ">"}
        close == IF ends = {} THEN 0
                 ELSE CHOOSE j \in ends : \A k \in ends : j <= k
        span == LowerStr(SubSeq(text, 1, close))
    IN IF text[1] = "<" /\ close # 0 /\ span \in DOMAIN SPECIAL_KEYS
       THEN <<<<"key", SPECIAL_KEYS[span]>>>>
              \o SpecScan(SubSeq(text, close + 1, Len(text)))
       ELSE PrependChar(text[1], SpecScan(Tail(text)))

\* C10: for every input the tokenizer's output is the specification's
\* left-to-right scan, and "Hello<enter>World" gives
\* [(text,"Hello"), (key,"enter"), (text,"World")].
C10_TokenizerIsScan ==
  tok.state = "done" =>
    /\ tok.parts = SpecScan(tok.text)
    /\ tok.text = Hello \o EnterToken \o World =>
         tok.parts = <<<<"text", Hello>>, <<"key", "enter">>, <<"text", World>>>>

\* a key between two literal runs, found by the enumeration
C10_Witness ==
  /\ tok.state = "done"
  /\ tok.text = <<"U", "<", "u", "p", ">", "p">>
  /\ tok.parts = <<<<"text", <<"U">>>>, <<"key", "up">>, <<"text", <<"p">>>>>>

\* the specification's own example
C10_WitnessHello ==
  /\ tok.state = "done"
  /\ tok.text = Hello \o EnterToken \o World
  /\ Len(tok.parts) = 3

\* The '<' characters of a text, told apart without scanning: position i
\* (1-based) is a hit when the span from it to the next '>' is registered.
FirstClose(text, i) ==
  LET ends == {j \in i..Len(text) : text[j] = ">"}
  IN IF ends = {} THEN 0 ELSE CHOOSE j \in ends : \A k \in ends : j <= k

IsHit(text, i) ==
  /\ text[i] = "<"
  /\ FirstClose(text, i) # 0
  /\ LowerStr(SubSeq(text, i, FirstClose(text, i))) \in DOMAIN SPECIAL_KEYS

IsMiss(text, i) == text[i] = "<" /\ ~IsHit(text, i)

InsideHit(text, j) ==
  \E i \in 1..j : IsHit(text, i) /\ j <= FirstClose(text, i)

\* the characters outside every hit, in input order
RECURSIVE LiteralChars(_, _)
LiteralChars(text, j) ==
  IF j > Len(text) THEN <<>>
  ELSE (IF InsideHit(text, j) THEN <<>> ELSE <<text[j]>>) \o LiteralChars(text, j + 1)

\* the canonical names of the hits, in input order
RECURSIVE HitKeys(_, _)
HitKeys(text, j) ==
  IF j > Len(text) THEN <<>>
  ELSE (IF IsHit(text, j)
        THEN <<SPECIAL_KEYS[LowerStr(SubSeq(text, j, FirstClose(text, j)))]>>
        ELSE <<>>) \o HitKeys(text, j + 1)

\* what a list of segments types as literal text, and the keys it presses
RECURSIVE TextOf(_)
TextOf(parts) ==
  IF parts = <<>> THEN <<>>
  ELSE (IF parts[1][1] = "text" THEN parts[1][2] ELSE <<>>) \o TextOf(Tail(parts))

RECURSIVE KeysOf(_)
KeysOf(parts) ==
  IF parts = <<>> THEN <<>>
  ELSE (IF parts[1][1] = "key" THEN <<parts[1][2]>> ELSE <<>>) \o KeysOf(Tail(parts))

\* C11: a '<' with no '>' after it, or whose span to the next '>' is not
\* registered, is emitted as literal text and the scan resumes at the next
\* character: the literal output is every character outside the registered
\* tokens, a registered token that starts inside a rejected span is still a
\* key segment, and a text with no registered token is one text segment
\* ("a<b", "<bogus>ok"; "<b<enter>" gives the text "<b" and the key enter).
C11_MissIsLiteral ==
  tok.state = "done" =>
    /\ TextOf(tok.parts) = LiteralChars(tok.text, 1)
    /\ KeysOf(tok.parts) = HitKeys(tok.text, 1)
    /\ \A i \in 1..Len(tok.text) :
         IsMiss(tok.text, i) =>
           \E k \in 1..Len(tok.parts) :
             tok.parts[k][1] = "text" /\ "<" \in {tok.parts[k][2][m] : m \in 1..Len(tok.parts[k][2])}
    /\ (tok.text # <<>> /\ \A i \in 1..Len(tok.text) : ~IsHit(tok.text, i)) =>
         tok.parts = <<<<"text", tok.text>>>>
    /\ tok.text = <<"<", "b">> \o EnterToken =>
         tok.parts = <<<<"text", <<"<", "b">>>>, <<"key", "enter">>>>

\* a rejected span with a registered token starting inside it
C11_Witness ==
  /\ tok.state = "done"
  /\ tok.text = <<"<", "b">> \o EnterToken
  /\ IsMiss(tok.text, 1)
  /\ IsHit(tok.text, 3)
  /\ tok.parts = <<<<"text", <<"<", "b">>>>, <<"key", "enter">>>>

\* a '<' with no '>' after it
C11_WitnessUnclosed ==
  /\ tok.state = "done"
  /\ tok.text = <<"a", "<", "b">>
  /\ tok.parts = <<<<"text", <<"a", "<", "b">>>>>>

\* C29: the letter case of a text decides nothing about its tokens: the
\* segments of the text and of its lower-cased form are of the same kinds in
\* the same order, with the same (key, canonical name) segments ("<ENTER>"
\* gives the key enter); and each text segment is a piece of the input
\* exactly as written, the literal output being every character outside
\* the registered tokens, unregistered mixed-case spans included.
C29_CaseInsensitiveTokens ==
  tok.state = "done" =>
    LET lowered == ParseTextWithSpecialKeys(LowerStr(tok.text))
    IN /\ Len(tok.parts) = Len(lowered)
       /\ \A k \in 1..Len(tok.parts) :
            /\ tok.parts[k][1] = lowered[k][1]
            /\ tok.parts[k][1] = "key" => tok.parts[k] = lowered[k]
            /\ tok.parts[k][1] = "text" =>
                 /\ LowerStr(tok.parts[k][2]) = lowered[k][2]
                 /\ \E i \in 1..Len(tok.text) :
                      SubSeq(tok.text, i, i + Len(tok.parts[k][2]) - 1)
                        = tok.parts[k][2]
       /\ TextOf(tok.parts) = LiteralChars(tok.text, 1)
       /\ tok.text = <<"<", "E", "N", "T", "E", "R", ">">> =>
            tok.parts = <<<<"key", "enter">>>>

\* a registered token in mixed case between two upper-case letters
C29_Witness ==
  /\ tok.state = "done"
  /\ tok.text = <<"H", "<", "E", "n", "t", "e", "r", ">", "W">>
  /\ tok.parts = <<<<"text", <<"H">>>>, <<"key", "enter">>, <<"text", <<"W">>>>>>

\* an unregistered span in mixed case stays as written
C29_WitnessLiteral ==
  /\ tok.state = "done"
  /\ tok.text = <<"<", "B", "o", "g", "u", "s", ">", "O", "k">>
  /\ tok.parts = <<<<"text", tok.text>>>>

\* the registered tokens of a text as they are written in it, in input order
RECURSIVE HitSpans(_, _)
HitSpans(text, j) ==
  IF j > Len(text) THEN <<>>
  ELSE (IF IsHit(text, j) THEN <<SubSeq(text, j, FirstClose(text, j))>> ELSE <<>>)
         \o HitSpans(text, j + 1)

\* the segments written out, each key segment as the next span
RECURSIVE Rebuild(_, _)
Rebuild(parts, spans) ==
  IF parts = <<>> THEN <<>>
  ELSE IF parts[1][1] = "text" THEN parts[1][2] \o Rebuild(Tail(parts), spans)
  ELSE IF spans = <<>> THEN <<>>
  ELSE spans[1] \o Rebuild(Tail(parts), Tail(spans))

\* C37: the scan index grows in every iteration (so the loop ends), the
\* output has no empty text segment and no two adjacent text segments, and
\* writing each key segment as the bracketed span it was read from and
\* concatenating the segments gives the input back.
C37_TokenizerInvariants ==
  /\ tok.state \in {"ready", "done"} =>
       \A i \in 0..(Len(tok.text) - 1) :
         /\ AfterLiteral(i) > i
         /\ Find(tok.text, ">", i) # -1 => AfterKey(Find(tok.text, ">", i)) > i
  /\ tok.state = "done" =>
       /\ \A k \in 1..Len(tok.parts) :
            tok.parts[k][1] = "text" => tok.parts[k][2] # <<>>
       /\ \A k \in 1..(Len(tok.parts) - 1) :
            ~(tok.parts[k][1] = "text" /\ tok.parts[k + 1][1] = "text")
       /\ Len(KeysOf(tok.parts)) = Len(HitSpans(tok.text, 1))
       /\ Rebuild(tok.parts, HitSpans(tok.text, 1)) = tok.text

\* a mixed-case token between two literal characters, and two tokens with
\* nothing between them
C37_Witness ==
  /\ tok.state = "done"
  /\ tok.text = <<"H", "<", "E", "n", "t", "e", "r", ">", "W">>
  /\ tok.parts = <<<<"text", <<"H">>>>, <<"key", "enter">>, <<"text", <<"W">>>>>>

C37_WitnessAdjacentKeys ==
  /\ tok.state = "done"
  /\ tok.text = EnterToken \o EnterToken
  /\ tok.parts = <<<<"key", "enter">>, <<"key", "enter">>>>

\* ------------------------------------ specification: serialization round trip
\* An action is built by a constructor or loaded from a dictionary, time
\* passes, and the action is written with to_dict and rebuilt with
\* create_from_dict.
RtTexts == {<<>>, <<"h", "i">>}
RtDelays == {0, 5}
RtCoords == {0, 7}
RtButtons == {"left", "right"}
RtWaits == {0, 15}
RtKeyLists == {<<"a">>, <<"ctrl", "c">>}
RtKeys == {"enter", "f1"}
RtClicks == {1, 3}
RtDirections == {"up", "down"}
RtDurations == {5, 10}

\* what the constructors build at time now
Constructed(now) ==
  {TypeAction(t, d, now) : t \in RtTexts, d \in RtDelays}
  \cup {ClickAction(x, y, b, d, now) :
          x \in RtCoords, y \in RtCoords, b \in RtButtons, d \in RtDelays}
  \cup {DelayAction(wt, now) : wt \in RtWaits}
  \cup {HotkeyAction(k, d, now) : k \in RtKeyLists, d \in RtDelays}
  \cup {SpecialKeyAction(k, d, now) : k \in RtKeys, d \in RtDelays}
  \cup {ScrollAction(x, 7, c, dir, d, now) :
          x \in RtCoords, c \in RtClicks, dir \in RtDirections, d \in RtDelays}
  \cup {DragAction(sx, 0, ex, 7, du, b, d, now) :
          sx \in RtCoords, ex \in RtCoords, du \in RtDurations,
          b \in RtButtons, d \in RtDelays}

\* dictionaries as a sequence file holds them: the common fields set by
\* hand, or nothing but the discriminant
CommonFields ==
  [delay |-> 5, id |-> "a1", name |-> "Mine", description |-> <<"custom">>,
   enabled |-> FALSE, created_at |-> 9]

RtDicts ==
  {[type |-> v] : v \in VariantNames}
  \cup {CommonFields @@ [type |-> "TypeAction", text |-> <<"h", "i">>],
        CommonFields @@ [type |-> "ClickAction", x |-> 7, y |-> 0, button |-> "right"],
        CommonFields @@ [type |-> "DelayAction", wait_time |-> 15],
        CommonFields @@ [type |-> "HotkeyAction", keys |-> <<"ctrl", "c">>],
        CommonFields @@ [type |-> "SpecialKeyAction", key |-> "f1"],
        CommonFields @@ [type |-> "ScrollAction", x |-> 7, y |-> 0, clicks |-> 1,
                         direction |-> "down"],
        CommonFields @@ [type |-> "DragAction", start_x |-> 7, start_y |-> 0,
                         end_x |-> 0, end_y |-> 7, duration |-> 5,
                         button |-> "middle"]}

InitRt ==
  /\ seq = NewSequence
  /\ frame = [w \in Threads |-> IdleFrame]
  /\ obs = [w \in Threads |-> NoObs]
  /\ app = IdleApp
  /\ tok = NoTok
  /\ rt = [NoRt EXCEPT !.state = "new"]
  /\ act = NoAct /\ chk = NoChk /\ ai = NoAi /\ ld = NoLd /\ stops = NoStops

\* time.time() moves on
RtTick ==
  /\ rt.state \in {"new", "have"}
  /\ rt.clock < MaxClock
  /\ rt' = [rt EXCEPT !.clock = @ + 1]

\* an action built by its constructor
RtConstruct ==
  /\ rt.state = "new"
  /\ \E a \in Constructed(rt.clock) : rt' = [rt EXCEPT !.state = "have", !.a = a]

\* an action loaded from a dictionary
RtLoad ==
  /\ rt.state = "new"
  /\ \E d \in RtDicts :
       rt' = [rt EXCEPT !.state = "have", !.a = create_from_dict(d, rt.clock)]

\* Action.create_from_dict(a.to_dict())
RtRoundTrip ==
  /\ rt.state = "have"
  /\ rt' = [rt EXCEPT
       !.state = "done",
       !.d = to_dict(rt.a),
       !.b = create_from_dict(to_dict(rt.a), rt.clock),
       !.rebuilt_at = rt.clock]

\* mappings whose discriminant is missing, None or not a variant's name
RtUnknownDicts ==
  {[text |-> <<"h", "i">>],
   CommonFields,
   [type |-> None, text |-> <<"h", "i">>],
   [type |-> "typeaction", text |-> <<"h", "i">>],
   [type |-> "TYPE", text |-> <<"h", "i">>],
   [type |-> "Action"],
   CommonFields @@ [type |-> "KeyAction", key |-> "f1"]}

\* Action.create_from_dict(d) on any mapping
RtCreate ==
  /\ rt.state = "new"
  /\ \E d \in RtDicts \cup RtUnknownDicts :
       rt' = [rt EXCEPT !.state = "created", !.d = d,
                        !.b = create_from_dict(d, rt.clock)]

\* a.clone()
RtClone ==
  /\ rt.state = "have"
  /\ rt' = [rt EXCEPT !.state = "cloned", !.b = clone(rt.a, rt.clock),
                      !.rebuilt_at = rt.clock]

NextRt ==
  /\ UNCHANGED <<seq, frame, obs, app, tok, act, chk, ai, ld, stops>>
  /\ \/ RtTick
     \/ RtConstruct
     \/ RtLoad
     \/ RtRoundTrip
     \/ RtClone
     \/ RtCreate

SpecRt == InitRt /\ [][NextRt]_vars

\* C9: create_from_dict(a.to_dict()) is an action of a's variant whose
\* fields, the variant's own and the common ones, all equal a's.
C9_RoundTrip ==
  rt.state = "done" =>
    /\ rt.b.cls = rt.a.cls
    /\ DOMAIN rt.b = DOMAIN rt.a
    /\ \A f \in DOMAIN rt.a : rt.b[f] = rt.a[f]

\* a Drag with the right button, rebuilt later than it was created
C9_Witness ==
  /\ rt.state = "done"
  /\ rt.a.cls = "DragAction"
  /\ rt.a.button = "right"
  /\ rt.b.button = "right"
  /\ rt.a.created_at < rt.rebuilt_at

\* a loaded Delay carrying a base delay, an id and enabled = false
C9_WitnessLoaded ==
  /\ rt.state = "done"
  /\ rt.a.cls = "DelayAction"
  /\ rt.a.delay = 5 /\ rt.a.id = "a1" /\ ~rt.a.enabled
  /\ rt.b = rt.a

\* C22: a.clone() is an action of a's variant with a's id, whether a has one
\* or not, and with every other field, the common ones and the variant's
\* own, equal to a's.
C22_CloneEqualsOriginal ==
  rt.state = "cloned" =>
    /\ rt.b.cls = rt.a.cls
    /\ rt.b.id = rt.a.id
    /\ DOMAIN rt.b = DOMAIN rt.a
    /\ \A f \in DOMAIN rt.a \ {"cls", "id"} : rt.b[f] = rt.a[f]

\* the clone of a loaded action that has an id, made later than the original
C22_Witness ==
  /\ rt.state = "cloned"
  /\ rt.a.id = "a1"
  /\ rt.b.id = "a1"
  /\ rt.a.cls = "ScrollAction"
  /\ ~rt.a.enabled
  /\ rt.rebuilt_at > 0

\* the clone of a constructed action, which has no id
C22_WitnessNoId ==
  /\ rt.state = "cloned"
  /\ rt.a.id = None
  /\ rt.b.id = None
  /\ rt.a.cls = "TypeAction"

\* C23: create_from_dict on a mapping without a type, or with a type that is
\* not one of the seven variant names, raises the 'unknown action type'
\* error and builds no action; on each of the seven names it builds an
\* action of that variant.
C23_UnknownTypeFails ==
  rt.state = "created" =>
    IF "type" \in DOMAIN rt.d /\ rt.d.type \in VariantNames
    THEN "cls" \in DOMAIN rt.b /\ rt.b.cls = rt.d.type
    ELSE rt.b = UnknownActionType /\ "cls" \notin DOMAIN rt.b

\* a mapping with a type that differs from a variant's name in case only
C23_Witness ==
  /\ rt.state = "created"
  /\ "type" \in DOMAIN rt.d
  /\ rt.d.type = "typeaction"
  /\ rt.b = UnknownActionType

\* a mapping without a type
C23_WitnessMissing ==
  /\ rt.state = "created"
  /\ "type" \notin DOMAIN rt.d
  /\ "id" \in DOMAIN rt.d
  /\ rt.b = UnknownActionType

\* a known discriminant
C23_WitnessKnown ==
  /\ rt.state = "created"
  /\ rt.d = [type |-> "DragAction"]
  /\ rt.b.cls = "DragAction"

\* ------------------------------------------- the application's run control
UnbornFrame == [IdleFrame EXCEPT !.pc = "unborn"]

\* the guards without the call of validate()
StartCheck_NoValidate(c) ==
  /\ app.at[c] = "idle"
  /\ IF app.is_running \/ seq.actions = <<>>
     THEN UNCHANGED app
     ELSE app' = [app EXCEPT !.at[c] = "launch"]
  /\ UNCHANGED <<seq, frame, obs>>

\* start_automation, lines 916-928: the guards
StartCheck(c) ==
  /\ app.at[c] = "idle"
  /\ IF \/ app.is_running
        \/ seq.actions = <<>>
        \/ SequenceValidate(seq.actions) # <<>>
     THEN UNCHANGED app
     ELSE app' = [app EXCEPT !.at[c] = "launch"]
  /\ UNCHANGED <<seq, frame, obs>>

\* start_automation, lines 930-941: flag, buttons, settings, worker thread
StartLaunch(c) ==
  /\ app.at[c] = "launch"
  /\ \E w \in Threads :
       /\ frame[w].pc = "unborn"
       /\ \A v \in Threads : v < w => frame[v].pc # "unborn"
       /\ frame' = [frame EXCEPT ![w] =
            IF app.countdown_var
            THEN [IdleFrame EXCEPT !.pc = "countdown", !.countdown = 3]
            ELSE IdleFrame]
  /\ app' = [app EXCEPT !.at[c] = "idle", !.is_running = TRUE,
                        !.start_btn = FALSE, !.stop_btn = TRUE]
  /\ seq' = [seq EXCEPT !.loop_enabled = app.loop_var,
                        !.loop_count = app.loop_count_var,
                        !.repeat_interval = app.repeat_interval_var]
  /\ UNCHANGED obs

\* stop_automation
StopAutomation(c) ==
  /\ app.at[c] = "idle"
  /\ app.is_running
  /\ app' = [app EXCEPT !.is_running = FALSE]
  /\ UNCHANGED <<seq, frame, obs>>

\* _run_automation, lines 949-954: one round of the countdown
Countdown(w) ==
  /\ frame[w].pc = "countdown"
  /\ IF ~app.is_running
     THEN frame' = [frame EXCEPT ![w].pc = "cancelled"]
     ELSE frame' = [frame EXCEPT
                      ![w].countdown = @ - 1,
                      ![w].pc = IF frame[w].countdown = 1 THEN "idle" ELSE "countdown"]
  /\ UNCHANGED <<seq, obs, app>>

\* a worker that ends without queueing _automation_finished
WorkerExit_NoCallback(w) ==
  /\ frame[w].pc \in {"done", "cancelled"}
  /\ frame' = [frame EXCEPT ![w] = [IdleFrame EXCEPT !.pc = "exited"]]
  /\ UNCHANGED <<seq, obs, app>>

\* _run_automation, lines 982-983: root.after(0, self._automation_finished)
WorkerExit(w) ==
  /\ frame[w].pc \in {"done", "cancelled"}
  /\ frame' = [frame EXCEPT ![w] = [IdleFrame EXCEPT !.pc = "exited"]]
  /\ app' = [app EXCEPT !.after = @ + 1]
  /\ UNCHANGED <<seq, obs>>

\* _automation_finished, run by the Tk thread from its after-queue
AutomationFinished ==
  /\ app.at["ui"] = "idle"
  /\ app.after > 0
  /\ app' = [app EXCEPT !.after = @ - 1, !.is_running = FALSE,
                        !.start_btn = TRUE, !.stop_btn = FALSE]
  /\ UNCHANGED <<seq, frame, obs>>

\* the handlers of the Tk thread that change the action list
UiIdle == app.at["ui"] = "idle"

\* add_type_action, add_click_action, ...: ActionSequence.add_action
AddAction(action) ==
  /\ UiIdle
  /\ Len(seq.actions) < MaxAppActions
  /\ seq' = [seq EXCEPT !.actions = add_action(@, action)]
  /\ UNCHANGED <<frame, obs, app>>

\* delete_selected_action, confirmed in the dialog
DeleteSelectedAction(index) ==
  /\ UiIdle
  /\ seq' = [seq EXCEPT !.actions = remove_action(@, index)]
  /\ UNCHANGED <<frame, obs, app>>

\* duplicate_selected_action
DuplicateSelectedAction(index, now) ==
  /\ UiIdle
  /\ Len(seq.actions) < MaxAppActions
  /\ seq' = [seq EXCEPT !.actions =
       Insert(@, index + 1, clone(seq.actions[index + 1], now))]
  /\ UNCHANGED <<frame, obs, app>>

\* handle_action_list_event("move", from_index, to_index), move_action_up,
\* move_action_down
MoveAction(from_index, to_index) ==
  /\ UiIdle
  /\ seq' = [seq EXCEPT !.actions = move_action(@, from_index, to_index)]
  /\ UNCHANGED <<frame, obs, app>>

\* clear_all_actions, confirmed in the dialog
ClearAllActions ==
  /\ UiIdle
  /\ seq.actions # <<>>
  /\ seq' = [seq EXCEPT !.actions = clear(@)]
  /\ UNCHANGED <<frame, obs, app>>

\* --------------------------------------------- specification: the application
AppActions == {SampleType}
AppLoopCount == 2
AppInterval == 20

InitApp ==
  /\ seq = NewSequence
  /\ frame = [w \in Threads |-> UnbornFrame]
  /\ obs = [w \in Threads |-> CoarseObs]
  /\ app = [IdleApp EXCEPT !.loop_var = TRUE, !.loop_count_var = AppLoopCount,
                         !.repeat_interval_var = AppInterval]
  /\ tok = NoTok
  /\ rt = NoRt
  /\ act = NoAct /\ chk = NoChk /\ ai = NoAi /\ ld = NoLd /\ stops = NoStops

StopRequested == ~app.is_running

\* the steps of a worker thread; raises: whether its progress callback
\* (root.after from the worker thread) raises
WorkerStepRaising(w, raises) ==
  \/ Countdown(w)
  \/ (Execute(w, TRUE, TRUE) /\ UNCHANGED app)
  \/ (ForLoop(w) /\ UNCHANGED app)
  \/ (LoopPoll(w, StopRequested) /\ UNCHANGED app)
  \/ (ForAction(w) /\ UNCHANGED app)
  \/ (ActPoll(w, StopRequested) /\ UNCHANGED app)
  \/ (Progress(w, raises) /\ UNCHANGED app)
  \/ (\E impl \in ImplBehaviours : Exec(w, impl) /\ UNCHANGED app)
  \/ (Between(w, raises) /\ UNCHANGED app)
  \/ (Sleep(w) /\ UNCHANGED app)
  \/ (Finally(w) /\ UNCHANGED app)
  \/ WorkerExit(w)

WorkerStep(w) == WorkerStepRaising(w, FALSE)

NextApp ==
  /\ UNCHANGED <<tok, rt, act, chk, ai, ld, stops>>
  /\ \/ \E c \in Callers : StartCheck(c)
     \/ \E c \in Callers : StartLaunch(c)
     \/ \E c \in Callers : StopAutomation(c)
     \/ AutomationFinished
     \/ \E a \in AppActions : AddAction(a)
     \/ \E i \in 0..(Len(seq.actions) - 1) : DeleteSelectedAction(i)
     \/ \E i \in 0..(Len(seq.actions) - 1) : DuplicateSelectedAction(i, 0)
     \/ \E i, j \in 0..(Len(seq.actions) - 1) : MoveAction(i, j)
     \/ ClearAllActions
     \/ \E w \in Threads : WorkerStep(w)

SpecApp == InitApp /\ [][NextApp]_vars

\* ------------------------------------------------- claims: the application
Executing(w) == frame[w].pc \in InExecute

\* C4: at most one execution of the sequence is in flight at any time.
C4_SingleExecution ==
  Cardinality({w \in Threads : Executing(w)}) <= 1

\* C5: while is_running is true the action list is not changed.
C5_NoMutationWhileRunning ==
  [][seq.is_running => seq'.actions = seq.actions]_vars

\* --------------------------------------------------- Action.execute, by step
\* What the variant's operation (_execute_impl, which drives the input
\* collaborator) can do when it runs: return True or False, or raise.  The
\* collaborator's errors (pyautogui.FailSafeException), the errors of
\* time.sleep and of argument checks (ValueError), the base class's
\* NotImplementedError and ActionError itself are all subclasses of Exception.
ExceptionSubclasses ==
  {"FailSafeException", "ValueError", "NotImplementedError", "ActionError"}
ImplOutcomes ==
  {[kind |-> "return", value |-> v] : v \in BOOLEAN}
  \cup {[kind |-> "raise", type |-> t, msg |-> m] :
          t \in ExceptionSubclasses, m \in {"", "fail-safe triggered"}}
NoOutcome == [kind |-> "none"]

\* line 46: except Exception
Catches(e) == e.type \in ExceptionSubclasses

\* the handler letting the original exception through
Wrap_Reraise(self, e) == e

\* line 48: ActionError(f"Failed to execute {self.__class__.__name__}: {str(e)}")
Wrap(self, e) ==
  [kind |-> "raise", type |-> "ActionError",
   msg |-> "Failed to execute " \o self.cls \o ": " \o e.msg]

\* line 36: if not self.enabled
Skips(self) == ~self.enabled

\* the delay that is never slept
SleepsFirst_Never(self) == FALSE

\* line 41: if self.delay > 0
SleepsFirst(self) == self.delay > 0

\* lines 35-38: enter the try block; a disabled action returns True
ActCall ==
  /\ act.pc = "call"
  /\ act' = IF Skips(act.self)
            THEN [act EXCEPT !.pc = "done",
                             !.outcome = [kind |-> "return", value |-> TRUE]]
            ELSE [act EXCEPT !.pc = "delay"]

\* lines 41-43: time.sleep(self.delay) when the delay is positive
ActDelay ==
  /\ act.pc = "delay"
  /\ act' = [act EXCEPT
               !.pc = "impl",
               !.events = IF SleepsFirst(act.self)
                          THEN Append(@, <<"sleep", act.self.delay>>) ELSE @]

\* line 45: return self._execute_impl()
ActImpl(o) ==
  /\ act.pc = "impl"
  /\ act' = IF o.kind = "return"
            THEN [act EXCEPT !.pc = "done", !.outcome = o,
                             !.events = Append(@, <<"impl", 0>>)]
            ELSE [act EXCEPT !.pc = "except", !.exc = o,
                             !.events = Append(@, <<"impl", 0>>)]

\* lines 46-48: the handler
ActExcept ==
  /\ act.pc = "except"
  /\ act' = [act EXCEPT !.pc = "done",
                        !.outcome = IF Catches(act.exc)
                                    THEN Wrap(act.self, act.exc) ELSE act.exc]

\* ------------------------------------------ specification: Action.execute
ActDelays == {0, 5}
ActSamples(d) ==
  { TypeAction(<<"h", "i">>, d, 0), ClickAction(0, 7, "left", d, 0),
    DelayAction(15, 0), HotkeyAction(<<"ctrl", "c">>, d, 0),
    SpecialKeyAction("enter", d, 0), ScrollAction(0, 7, 3, "up", d, 0),
    DragAction(0, 0, 7, 7, 10, "left", d, 0) }
\* a Delay loaded from a dictionary that carries a base delay
LoadedDelay ==
  create_from_dict([type |-> "DelayAction", delay |-> 5, wait_time |-> 15], 0)
ActInputs ==
  {[a EXCEPT !.enabled = e] :
     a \in UNION {ActSamples(d) : d \in ActDelays} \cup {LoadedDelay},
     e \in BOOLEAN}

InitAct ==
  /\ seq = NewSequence
  /\ frame = [w \in Threads |-> IdleFrame]
  /\ obs = [w \in Threads |-> NoObs]
  /\ app = IdleApp
  /\ tok = NoTok
  /\ rt = NoRt
  /\ chk = NoChk /\ ai = NoAi /\ ld = NoLd /\ stops = NoStops
  /\ \E a \in ActInputs :
       act = [pc |-> "call", self |-> a, events |-> <<>>,
              outcome |-> NoOutcome, exc |-> NoOutcome]

NextAct ==
  /\ UNCHANGED <<seq, frame, obs, app, tok, rt, chk, ai, ld, stops>>
  /\ \/ ActCall
     \/ ActDelay
     \/ \E o \in ImplOutcomes : ActImpl(o)
     \/ ActExcept

SpecAct == InitAct /\ [][NextAct]_vars

\* ------------------------------------------------- claims: Action.execute
\* C12: whatever the variant's operation raises, the caller of
\* Action.execute() gets an ActionError whose message names the variant and
\* carries the original message; no other exception type leaves the call.
C12_OnlyActionError ==
  act.pc = "done" =>
    /\ act.outcome.kind = "raise" => act.outcome.type = "ActionError"
    /\ act.exc.kind = "raise" =>
         act.outcome = [kind |-> "raise", type |-> "ActionError",
                        msg |-> "Failed to execute " \o act.self.cls
                                  \o ": " \o act.exc.msg]

\* the collaborator's fail-safe raised under a click
C12_Witness ==
  /\ act.pc = "done"
  /\ act.self.cls = "ClickAction"
  /\ act.exc.kind = "raise"
  /\ act.exc.type = "FailSafeException"
  /\ act.outcome.msg = "Failed to execute ClickAction: fail-safe triggered"

\* C13: a disabled action returns success with no sleep and no operation;
\* an enabled action sleeps for its delay first and then runs its operation
\* exactly once.
C13_DisabledSkipsEnabledSleepsFirst ==
  /\ ~act.self.enabled => act.events = <<>>
  /\ act.pc = "done" =>
       IF ~act.self.enabled
       THEN act.events = <<>> /\ act.outcome = [kind |-> "return", value |-> TRUE]
       ELSE act.events =
              (IF act.self.delay > 0 THEN <<<<"sleep", act.self.delay>>>> ELSE <<>>)
                \o <<<<"impl", 0>>>>

\* an enabled action with a positive delay has slept and then run
C13_Witness ==
  /\ act.pc = "done"
  /\ act.self.enabled
  /\ act.self.delay = 5
  /\ act.events = <<<<"sleep", 5>>, <<"impl", 0>>>>

\* a disabled action with a positive delay has returned
C13_WitnessDisabled ==
  /\ act.pc = "done"
  /\ ~act.self.enabled
  /\ act.self.delay = 5
  /\ act.outcome = [kind |-> "return", value |-> TRUE]

\* C26: executing a Delay action blocks for wait_time only, in its
\* operation: whatever base delay the action carries, a loaded positive one
\* included, execute() does not sleep before the operation.
C26_DelayIgnoresBaseDelay ==
  act.self.cls = "DelayAction" =>
    \A k \in 1..Len(act.events) : act.events[k][1] # "sleep"

\* ---------------------------------------------- specification: validate()
\* Actions as the constructors build them from any arguments, in range or
\* not (the constructors and from_dict store what they are given), and lists
\* of them.  Every field holds a value of its declared type, so the
\* isinstance tests of the validate() methods pass and are not written out.
ChkDelays == {-1, 0, 5}
ChkCoords == {-1, 7}
ChkButtons == {"left", "middle", "side"}
ChkWaits == {-1, 0, 15}
ChkKeyLists == {<<>>, <<"ctrl", "c">>}
ChkKeys == {"", " ", "enter"}
ChkClicks == {-1, 0, 3}
ChkDirections == {"up", "left"}
ChkDurations == {-5, 0, 10}
ChkActions ==
  {TypeAction(<<"h", "i">>, d, 0) : d \in ChkDelays}
  \cup {ClickAction(x, y, b, d, 0) :
          x \in ChkCoords, y \in ChkCoords, b \in ChkButtons, d \in ChkDelays}
  \cup {DelayAction(wt, 0) : wt \in ChkWaits}
  \cup {HotkeyAction(k, d, 0) : k \in ChkKeyLists, d \in ChkDelays}
  \cup {SpecialKeyAction(k, d, 0) : k \in ChkKeys, d \in ChkDelays}
  \cup {ScrollAction(7, 7, c, dir, d, 0) :
          c \in ChkClicks, dir \in ChkDirections, d \in ChkDelays}
  \cup {DragAction(x, 7, 7, 7, du, b, d, 0) :
          x \in ChkCoords, du \in ChkDurations, b \in ChkButtons, d \in ChkDelays}
ChkListed ==
  { TypeAction(<<"h", "i">>, 5, 0), ClickAction(-1, 7, "left", 5, 0),
    HotkeyAction(<<>>, 5, 0) }

InitChk ==
  /\ frame = [w \in Threads |-> IdleFrame]
  /\ obs = [w \in Threads |-> NoObs]
  /\ app = IdleApp
  /\ tok = NoTok
  /\ rt = NoRt
  /\ act = NoAct /\ ai = NoAi /\ ld = NoLd /\ stops = NoStops
  /\ \/ /\ seq = NewSequence
        /\ \E a \in ChkActions :
             chk = [state |-> "action", self |-> a, result |-> FALSE,
                    errors |-> <<>>]
     \/ /\ \E acts \in Lists(ChkListed, MaxActions) :
             seq = [NewSequence EXCEPT !.actions = acts]
        /\ chk = [state |-> "sequence", self |-> NoAction, result |-> FALSE,
                  errors |-> <<>>]

\* action.validate(): reads the fields, assigns none
ValidateAction ==
  /\ chk.state = "action"
  /\ chk' = [chk EXCEPT !.state = "action_done", !.result = validate(chk.self)]
  /\ UNCHANGED seq

\* ActionSequence.validate(): reads the list, assigns nothing
ValidateSequence ==
  /\ chk.state = "sequence"
  /\ chk' = [chk EXCEPT !.state = "sequence_done",
                        !.errors = SequenceValidate(seq.actions)]
  /\ UNCHANGED seq

NextChk ==
  /\ UNCHANGED <<frame, obs, app, tok, rt, act, ai, ld, stops>>
  /\ \/ ValidateAction
     \/ ValidateSequence

SpecChk == InitChk /\ [][NextChk]_vars

\* ------------------------------------------------------ claims: validate()
\* the constraints of the data model on an action's fields
ViolatesDataModel(self) ==
  \/ self.delay < 0
  \/ /\ self.cls = "ClickAction"
     /\ self.x < 0 \/ self.y < 0 \/ self.button \notin {"left", "right", "middle"}
  \/ self.cls = "DelayAction" /\ self.wait_time < 0
  \/ self.cls = "HotkeyAction" /\ self.keys = <<>>
  \/ self.cls = "SpecialKeyAction" /\ self.key \in {"", " "}
  \/ /\ self.cls = "ScrollAction"
     /\ self.clicks <= 0 \/ self.direction \notin {"up", "down"}
  \/ /\ self.cls = "DragAction"
     /\ self.duration <= 0 \/ self.button \notin {"left", "right", "middle"}

\* C14: validate() returns false for every action that violates a
\* constraint of the data model, a negative delay included.
C14_ValidateRejectsOutOfRange ==
  (chk.state = "action_done" /\ ViolatesDataModel(chk.self)) => ~chk.result

\* the positions of a list whose action fails validate(), in order
RECURSIVE InvalidPositions(_, _)
InvalidPositions(actions, i) ==
  IF i > Len(actions) THEN <<>>
  ELSE (IF ~validate(actions[i]) THEN <<i>> ELSE <<>>)
         \o InvalidPositions(actions, i + 1)

\* the messages of ActionSequence.validate(): one for each action whose
\* validate() is false, in list order, and one 'empty sequence' message
\* exactly when the list is empty
SequenceValidateMessages ==
  chk.state = "sequence_done" =>
    LET empties == SelectSeq(chk.errors, LAMBDA e : e[1] = "empty")
        invalids == SelectSeq(chk.errors, LAMBDA e : e[1] = "invalid")
    IN /\ Len(empties) = (IF seq.actions = <<>> THEN 1 ELSE 0)
       /\ Len(empties) + Len(invalids) = Len(chk.errors)
       /\ [k \in 1..Len(invalids) |-> invalids[k][2]]
            = InvalidPositions(seq.actions, 1)

\* C15: ActionSequence.validate() returns exactly one message for each
\* action whose validate() is false, in list order, plus one 'empty
\* sequence' message if and only if the list is empty, and the call leaves
\* the sequence and its actions as they were.
C15_SequenceValidate ==
  /\ []SequenceValidateMessages
  /\ [][chk'.state = "sequence_done" => seq' = seq]_vars

\* a list with a valid action between two invalid ones
C15_Witness ==
  /\ chk.state = "sequence_done"
  /\ Len(seq.actions) = 3
  /\ ~validate(seq.actions[1]) /\ validate(seq.actions[2]) /\ ~validate(seq.actions[3])
  /\ chk.errors = <<<<"invalid", 1>>, <<"invalid", 3>>>>

\* the empty list
C15_WitnessEmpty ==
  /\ chk.state = "sequence_done"
  /\ seq.actions = <<>>
  /\ chk.errors = <<<<"empty", 0>>>>

\* ----------------------------------------------------- AI response parser
\* The provider text (content) is a record: first_open is content.find('{'),
\* last_close is content.rfind('}'), decoded is what json.loads makes of the
\* span between them, and lines is content.split('\n'), each line a prefix
\* and the rest of the line as the scan uses it.  A decoded span is a JSON
\* object; its "actions" member is missing, a list of entries, or a value of
\* another kind.  An entry is a JSON object with some members, or a value of
\* another kind.
AiNow == 0

\* int(s) for a string without surrounding blanks; ok is FALSE where
\* Python raises ValueError
ParseInt(s) ==
  LET ns == {n \in -9..99 : ToString(n) = s}
  IN IF ns = {} THEN [ok |-> FALSE, v |-> 0]
     ELSE [ok |-> TRUE, v |-> CHOOSE n \in ns : TRUE]

\* float(s), in tenths: a decimal number with at most one decimal digit
ParseFloat(s) ==
  LET ns == {n \in -99..999 :
               \/ (n % 10 = 0 /\ ToString(n \div 10) = s)
               \/ (n >= 0 /\ ToString(n \div 10) \o "." \o ToString(n % 10) = s)}
  IN IF ns = {} THEN [ok |-> FALSE, v |-> 0]
     ELSE [ok |-> TRUE, v |-> CHOOSE n \in ns : TRUE]

\* str.upper() on the discriminants a provider writes
Upper(t) ==
  CASE t = "type" -> "TYPE" [] t = "click" -> "CLICK" [] t = "delay" -> "DELAY"
    [] t = "hotkey" -> "HOTKEY" [] t = "special_key" -> "SPECIAL_KEY"
    [] t = "Click" -> "CLICK" [] OTHER -> t

Created(a) == [kind |-> "action", action |-> a, exc |-> ""]
CreatedNone == [kind |-> "none", action |-> NoAction, exc |-> ""]
CreateRaises(t) == [kind |-> "raise", action |-> NoAction, exc |-> t]

\* lines 277-301: _create_action_from_data.  data.get on a value that is
\* not an object and .upper() on a discriminant that is not a string raise
\* AttributeError, which the handler of line 298 does not catch; a missing
\* member raises KeyError, which it does.
create_action_from_data(data) ==
  IF data.j # "object" THEN CreateRaises("AttributeError")
  ELSE IF "type" \in data.has /\ data.type_kind # "str"
  THEN CreateRaises("AttributeError")
  ELSE
    LET action_type == IF "type" \in data.has THEN Upper(data.type) ELSE ""
        delay == IF "delay" \in data.has THEN data.delay ELSE 0
    IN CASE action_type = "TYPE" ->
              IF "text" \in data.has
              THEN Created(TypeAction(data.text, delay, AiNow)) ELSE CreatedNone
         [] action_type = "CLICK" ->
              IF "x" \in data.has /\ "y" \in data.has
              THEN Created(ClickAction(data.x, data.y,
                             IF "button" \in data.has THEN data.button ELSE "left",
                             delay, AiNow))
              ELSE CreatedNone
         [] action_type = "DELAY" ->
              IF "wait_time" \in data.has
              THEN Created(DelayAction(data.wait_time, AiNow)) ELSE CreatedNone
         [] action_type = "HOTKEY" ->
              IF "keys" \in data.has
              THEN Created(HotkeyAction(data.keys, delay, AiNow)) ELSE CreatedNone
         [] action_type = "SPECIAL_KEY" ->
              IF "key" \in data.has
              THEN Created(SpecialKeyAction(data.key, delay, AiNow)) ELSE CreatedNone
         [] OTHER -> CreatedNone

\* lines 303-334: _parse_text_response, one line at a time
TypePrefix == <<"t", "y", "p", "e", ":">>
ClickPrefix == <<"c", "l", "i", "c", "k", ":">>
WaitPrefix == <<"w", "a", "i", "t", ":">>

\* str.strip() on a sequence of characters
RECURSIVE StripLeft(_)
StripLeft(s) == IF s # <<>> /\ s[1] = " " THEN StripLeft(Tail(s)) ELSE s
RECURSIVE StripRight(_)
StripRight(s) ==
  IF s # <<>> /\ s[Len(s)] = " " THEN StripRight(SubSeq(s, 1, Len(s) - 1)) ELSE s
Strip(s) == StripRight(StripLeft(s))

\* a click line taken by its first two numbers, whatever follows them
LineActions_FirstTwo(line) ==
  IF line.prefix = <<>> /\ line.rest = <<>> THEN <<>>
  ELSE IF LowerStr(line.prefix) = TypePrefix
  THEN <<TypeAction(Strip(line.rest), 5, AiNow)>>
  ELSE IF LowerStr(line.prefix) = ClickPrefix
  THEN IF /\ Len(line.rest) >= 2
          /\ ParseInt(line.rest[1]).ok /\ ParseInt(line.rest[2]).ok
       THEN <<ClickAction(ParseInt(line.rest[1]).v, ParseInt(line.rest[2]).v,
                          "left", 2, AiNow)>>
       ELSE <<>>
  ELSE IF LowerStr(line.prefix) = WaitPrefix
  THEN IF Len(line.rest) = 1 /\ ParseFloat(line.rest[1]).ok
       THEN <<DelayAction(ParseFloat(line.rest[1]).v, AiNow)>>
       ELSE <<>>
  ELSE <<>>

\* the body of the loop: the rest of a type line is the characters after
\* the prefix, the rest of a click or wait line its pieces between commas
LineActions(line) ==
  IF line.prefix = <<>> /\ line.rest = <<>> THEN <<>>
  ELSE IF LowerStr(line.prefix) = TypePrefix
  THEN <<TypeAction(Strip(line.rest), 5, AiNow)>>
  ELSE IF LowerStr(line.prefix) = ClickPrefix
  THEN IF Len(line.rest) >= 2
       THEN IF /\ Len(line.rest) = 2
               /\ ParseInt(line.rest[1]).ok /\ ParseInt(line.rest[2]).ok
            THEN <<ClickAction(ParseInt(line.rest[1]).v, ParseInt(line.rest[2]).v,
                               "left", 2, AiNow)>>
            ELSE <<>>
       ELSE <<>>
  ELSE IF LowerStr(line.prefix) = WaitPrefix
  THEN IF Len(line.rest) = 1 /\ ParseFloat(line.rest[1]).ok
       THEN <<DelayAction(ParseFloat(line.rest[1]).v, AiNow)>>
       ELSE <<>>
  ELSE <<>>

RECURSIVE parse_text_response(_)
parse_text_response(lines) ==
  IF lines = <<>> THEN <<>>
  ELSE LineActions(lines[1]) \o parse_text_response(Tail(lines))

Parsed(actions) == [kind |-> "return", actions |-> actions, exc |-> ""]
ParseRaises(t) == [kind |-> "raise", actions |-> <<>>, exc |-> t]

\* lines 265-268: the loop over data.get('actions', [])
RECURSIVE EntriesLoop(_, _)
EntriesLoop(entries, actions) ==
  IF entries = <<>> THEN Parsed(actions)
  ELSE LET c == create_action_from_data(entries[1])
       IN IF c.kind = "raise" THEN ParseRaises(c.exc)
          ELSE EntriesLoop(Tail(entries),
                           IF c.kind = "action" THEN Append(actions, c.action)
                           ELSE actions)

\* lines 261 and 275: without a span the list stays empty
NoSpanResult(content) == Parsed(<<>>)

\* lines 252-275: _parse_action_response
parse_action_response(content) ==
  LET start_idx == content.first_open
      end_idx == content.last_close + 1
  IN IF start_idx # -1 /\ end_idx > start_idx
     THEN IF content.decoded.kind = "JSONDecodeError"
          THEN Parsed(parse_text_response(content.lines))
          ELSE CASE content.decoded.actions_kind = "missing" -> Parsed(<<>>)
                 [] content.decoded.actions_kind = "list" ->
                      EntriesLoop(content.decoded.entries, <<>>)
                 [] content.decoded.actions_kind = "string" ->
                      EntriesLoop(content.decoded.entries, <<>>)
                 [] OTHER -> ParseRaises("TypeError")
     ELSE NoSpanResult(content)

\* ------------------------------------------- AI providers and the manager
\* AIResponse (lines 19-26); error "None" is Python's None
AIResponse(success, has_content, has_actions, actions, error) ==
  [success |-> success, has_content |-> has_content,
   has_actions |-> has_actions, actions |-> actions, error |-> error]
NoResponse == AIResponse(FALSE, FALSE, FALSE, <<>>, "None")

\* what session.post and the body of the response can do
NoTransport == [kind |-> "none", code |-> 0]
Transports ==
  { [kind |-> "ConnectionError", code |-> 0],
    [kind |-> "Timeout", code |-> 0],
    [kind |-> "response", code |-> 500],
    [kind |-> "malformed", code |-> 200],
    [kind |-> "response", code |-> 200] }

\* lines 115-118 (161-164, 212-215 and the OpenAI twins): except Exception
Failed(e) == AIResponse(FALSE, FALSE, FALSE, <<>>, "Failed: " \o e)

\* lines 559-570 (572-596): the manager asks for the current provider and
\* answers itself when there is none
AiManagerCall ==
  /\ ai.pc = "call"
  /\ ai' = IF ai.provider = None
           THEN [ai EXCEPT !.pc = "done",
                   !.response = AIResponse(FALSE, FALSE, FALSE, <<>>,
                                           "No AI provider available")]
           ELSE [ai EXCEPT !.pc = "post"]

\* a request that is sent again after an exception
AiPost_Retry(t) ==
  /\ ai.pc = "post"
  /\ ai.posts < 2
  /\ ai' = IF t.kind \in {"ConnectionError", "Timeout"}
           THEN [ai EXCEPT !.posts = @ + 1, !.transport = t]
           ELSE [ai EXCEPT !.pc = "received", !.posts = @ + 1, !.transport = t]

\* line 95 (146, 197, 372, 420, 463): self.session.post(...), once; an
\* exception of the transport goes to the handler
AiPost(t) ==
  /\ ai.pc = "post"
  /\ ai' = IF t.kind \in {"ConnectionError", "Timeout"}
           THEN [ai EXCEPT !.pc = "done", !.posts = @ + 1, !.transport = t,
                           !.response = Failed(t.kind)]
           ELSE [ai EXCEPT !.pc = "received", !.posts = @ + 1, !.transport = t]

\* lines 97-113: a 200 response is decoded and, for generate_actions,
\* parsed; any other status is a failed AIResponse; whatever is raised on
\* the way goes to the handler
AiReceive ==
  /\ ai.pc = "received"
  /\ ai' =
       [ai EXCEPT
          !.pc = "done",
          !.response =
            IF ai.transport.code # 200
            THEN AIResponse(FALSE, FALSE, FALSE, <<>>,
                            "API error: " \o ToString(ai.transport.code))
            ELSE IF ai.transport.kind = "malformed" THEN Failed("KeyError")
            ELSE IF ai.op # "generate"
            THEN AIResponse(TRUE, TRUE, FALSE, <<>>, "None")
            ELSE LET parsed == parse_action_response(ai.content)
                 IN IF parsed.kind = "raise" THEN Failed(parsed.exc)
                    ELSE AIResponse(TRUE, TRUE, TRUE, parsed.actions, "None")]

\* ------------------------------------------ specification: the AI pipeline
MaxEntries == 2
MaxLines == 2

NoEntry ==
  [j |-> "object", has |-> {}, type_kind |-> "str", type |-> "", text |-> <<>>,
   x |-> 0, y |-> 0, button |-> "left", wait_time |-> 0, keys |-> <<>>,
   key |-> "", delay |-> 0]
EntrySamples ==
  { [NoEntry EXCEPT !.has = {"type", "text", "delay"}, !.type = "TYPE",
                    !.text = Hello \o EnterToken, !.delay = 5],
    [NoEntry EXCEPT !.has = {"type", "x", "y"}, !.type = "click", !.x = 7, !.y = 7],
    [NoEntry EXCEPT !.has = {"type", "x", "y", "button"}, !.type = "CLICK",
                    !.x = -1, !.y = 7],
    [NoEntry EXCEPT !.has = {"type", "x", "y", "button"}, !.type = "CLICK",
                    !.x = 7, !.y = 7, !.button = "side"],
    [NoEntry EXCEPT !.has = {"type", "wait_time"}, !.type = "DELAY", !.wait_time = -1],
    [NoEntry EXCEPT !.has = {"type", "keys"}, !.type = "HOTKEY"],
    [NoEntry EXCEPT !.has = {"type", "keys"}, !.type = "HOTKEY",
                    !.keys = <<"ctrl", "c">>],
    [NoEntry EXCEPT !.has = {"type", "key"}, !.type = "SPECIAL_KEY", !.key = " "],
    [NoEntry EXCEPT !.has = {"type"}, !.type = "TYPE"],
    [NoEntry EXCEPT !.has = {"type", "x", "y"}, !.type = "SCROLL"],
    [NoEntry EXCEPT !.j = "number"],
    [NoEntry EXCEPT !.has = {"type"}, !.type_kind = "number"] }

Undecodable == [kind |-> "JSONDecodeError", actions_kind |-> "missing", entries |-> <<>>]
Decodable ==
  {[kind |-> "object", actions_kind |-> "list", entries |-> es] :
     es \in Lists(EntrySamples, MaxEntries)}
  \cup {[kind |-> "object", actions_kind |-> k, entries |-> <<>>] :
          k \in {"missing", "number", "null", "string"}}
  \cup {[kind |-> "object", actions_kind |-> "string",
         entries |-> <<[NoEntry EXCEPT !.j = "string"]>>]}

TypeLine == [prefix |-> <<"T", "y", "p", "e", ":">>, rest |-> Hello \o EnterToken]
LineSamples ==
  { TypeLine,
    [prefix |-> ClickPrefix, rest |-> <<"-1", "7">>],
    [prefix |-> ClickPrefix, rest |-> <<"7", "x">>],
    [prefix |-> WaitPrefix, rest |-> <<"-1">>],
    [prefix |-> WaitPrefix, rest |-> <<"1.5">>],
    [prefix |-> <<>>, rest |-> <<>>],
    [prefix |-> <<>>, rest |-> <<"o", "k">>],
    [prefix |-> TypePrefix, rest |-> <<" ", "h", " ", "i", " ">>],
    [prefix |-> <<"C", "L", "I", "C", "K", ":">>, rest |-> <<"7", "0">>],
    [prefix |-> ClickPrefix, rest |-> <<"7">>],
    [prefix |-> ClickPrefix, rest |-> <<"1", "2", "3">>],
    [prefix |-> <<"W", "a", "i", "t", ":">>, rest |-> <<"2">>],
    [prefix |-> WaitPrefix, rest |-> <<"soon">>] }

\* where the first '{' and the last '}' are when they enclose no span
NoSpans == {<<-1, -1>>, <<4, -1>>, <<0, -1>>, <<4, 2>>, <<-1, 3>>}
Contents ==
  {[first_open |-> 0, last_close |-> 9, decoded |-> d, lines |-> ls] :
     d \in Decodable, ls \in {<<>>, <<TypeLine>>}}
  \cup {[first_open |-> b[1], last_close |-> b[2], decoded |-> Undecodable,
         lines |-> ls] :
          b \in NoSpans \cup {<<0, 9>>}, ls \in Lists(LineSamples, MaxLines)}
NoContent ==
  [first_open |-> -1, last_close |-> -1, decoded |-> Undecodable, lines |-> <<>>]

InitAi ==
  /\ seq = NewSequence
  /\ frame = [w \in Threads |-> IdleFrame]
  /\ obs = [w \in Threads |-> NoObs]
  /\ app = IdleApp
  /\ tok = NoTok
  /\ rt = NoRt
  /\ act = NoAct /\ chk = NoChk /\ ld = NoLd /\ stops = NoStops
  /\ \E op \in {"generate", "explain", "optimize"},
        provider \in {None, "gemini", "openai"},
        content \in Contents :
       /\ (op # "generate" \/ provider = None) => content = NoContent
       /\ ai = [pc |-> "call", op |-> op, provider |-> provider,
                content |-> content, posts |-> 0, transport |-> NoTransport,
                response |-> NoResponse]

NextAi ==
  /\ UNCHANGED <<seq, frame, obs, app, tok, rt, act, chk, ld, stops>>
  /\ \/ AiManagerCall
     \/ \E t \in Transports : AiPost(t)
     \/ AiReceive

SpecAi == InitAi /\ [][NextAi]_vars

\* ------------------------------------------------ claims: the AI pipeline
\* the transport answered 200 with a well-formed body
TransportSucceeded == ai.transport = [kind |-> "response", code |-> 200]

\* the text holds a span from its first '{' to its last '}' that decodes
Structured(content) ==
  /\ content.first_open # -1
  /\ content.last_close > content.first_open
  /\ content.decoded.kind = "object"

\* C16: every action in the list the response parser returns, from either
\* stage, is valid: its validate() is true.
C16_ParsedActionsAreValid ==
  (ai.pc = "done" /\ ai.response.has_actions) =>
    \A k \in 1..Len(ai.response.actions) : validate(ai.response.actions[k])

\* C17: after a successful transport response generate_actions returns a
\* successful AIResponse with a list of actions, whatever the shape of the
\* provider text.
C17_ParseFailuresAbsorbed ==
  (ai.pc = "done" /\ ai.op = "generate" /\ TransportSucceeded) =>
    ai.response.success /\ ai.response.has_actions

\* C18: when the text holds no span that decodes as a structured object the
\* parser returns the result of the line scan (one Type action with text
\* "Hello<enter>" and delay 0.5 for the single line "Type: Hello<enter>"),
\* and when a structured object decodes the lines have no influence.
C18_HeuristicFallback ==
  (ai.pc = "done" /\ ai.op = "generate" /\ TransportSucceeded) =>
    /\ ~Structured(ai.content) =>
         /\ ai.response.has_actions
         /\ ai.response.actions = parse_text_response(ai.content.lines)
         /\ ai.content.lines = <<TypeLine>> =>
              ai.response.actions = <<TypeAction(Hello \o EnterToken, 5, AiNow)>>
    /\ Structured(ai.content) =>
         LET alone == parse_action_response([ai.content EXCEPT !.lines = <<>>])
         IN IF alone.kind = "raise" THEN ~ai.response.has_actions
            ELSE ai.response.actions = alone.actions

\* C19: a generate, explain or optimize call makes at most one transport
\* request; a transport exception, a timeout, a non-success status or a
\* malformed body ends in a failed AIResponse with its error set; without a
\* provider the manager answers with a failed AIResponse and no request.
C19_OneRequestFailureIsAResponse ==
  /\ ai.posts <= 1
  /\ ai.pc = "done" =>
       /\ ai.provider = None =>
            ai.posts = 0 /\ ~ai.response.success /\ ai.response.error # "None"
       /\ (ai.provider # None /\ ~TransportSucceeded) =>
            ai.posts = 1 /\ ~ai.response.success /\ ai.response.error # "None"

\* a timeout of the single request of an explain call
C19_Witness ==
  /\ ai.pc = "done"
  /\ ai.op = "explain"
  /\ ai.transport.kind = "Timeout"
  /\ ai.posts = 1
  /\ ai.response = Failed("Timeout")

\* the manager without a provider
C19_WitnessNoProvider ==
  /\ ai.pc = "done"
  /\ ai.provider = None
  /\ ai.posts = 0
  /\ ~ai.response.success

\* the discriminants of the structured stage and the members each requires
RecognisedTypes == {"TYPE", "CLICK", "DELAY", "HOTKEY", "SPECIAL_KEY"}
RequiredFields(t) ==
  CASE t = "TYPE" -> {"text"}
    [] t = "CLICK" -> {"x", "y"}
    [] t = "DELAY" -> {"wait_time"}
    [] t = "HOTKEY" -> {"keys"}
    [] t = "SPECIAL_KEY" -> {"key"}

\* an entry with a recognised type and every member that type requires
GoodEntry(e) ==
  /\ e.j = "object"
  /\ "type" \in e.has
  /\ e.type_kind = "str"
  /\ Upper(e.type) \in RecognisedTypes
  /\ RequiredFields(Upper(e.type)) \subseteq e.has

\* the actions built from the good entries of a list, in order
RECURSIVE BuiltFromGood(_)
BuiltFromGood(entries) ==
  IF entries = <<>> THEN <<>>
  ELSE (IF GoodEntry(entries[1])
        THEN <<create_action_from_data(entries[1]).action>> ELSE <<>>)
         \o BuiltFromGood(Tail(entries))

\* the structured stage ran on a list of JSON objects
StructuredList ==
  /\ ai.pc = "done" /\ ai.op = "generate" /\ TransportSucceeded
  /\ Structured(ai.content)
  /\ ai.content.decoded.actions_kind = "list"
  /\ \A k \in 1..Len(ai.content.decoded.entries) :
       ai.content.decoded.entries[k].j = "object"

\* C27: in the structured stage an entry without a required member or with
\* an unrecognised type is skipped on its own: the list returned is exactly
\* the actions built from the other entries, in their order.
C27_BadEntrySkippedAlone ==
  StructuredList =>
    ai.response.actions = BuiltFromGood(ai.content.decoded.entries)

\* the heuristic stage ran: there is a span and it does not decode
HeuristicStage ==
  /\ ai.pc = "done" /\ ai.op = "generate" /\ TransportSucceeded
  /\ ai.content.first_open # -1
  /\ ai.content.last_close > ai.content.first_open
  /\ ai.content.decoded.kind = "JSONDecodeError"

\* text is rest without the blanks around it
Trimmed(rest, text) ==
  /\ text # <<>> => text[1] # " " /\ text[Len(text)] # " "
  /\ \E i \in 1..(Len(rest) + 1) :
       /\ SubSeq(rest, i, i + Len(text) - 1) = text
       /\ \A k \in 1..Len(rest) :
            (k < i \/ k >= i + Len(text)) => rest[k] = " "

\* the lines that give an action
Yields(line) ==
  \/ LowerStr(line.prefix) = TypePrefix
  \/ /\ LowerStr(line.prefix) = ClickPrefix
     /\ Len(line.rest) = 2
     /\ \A k \in 1..2 : ParseInt(line.rest[k]).ok
  \/ /\ LowerStr(line.prefix) = WaitPrefix
     /\ Len(line.rest) = 1
     /\ ParseFloat(line.rest[1]).ok

\* a is the action the line gives
GivenBy(line, a) ==
  CASE LowerStr(line.prefix) = TypePrefix ->
         a.cls = "TypeAction" /\ a.delay = 5 /\ Trimmed(line.rest, a.text)
    [] LowerStr(line.prefix) = ClickPrefix ->
         /\ a.cls = "ClickAction" /\ a.delay = 2 /\ a.button = "left"
         /\ ToString(a.x) = line.rest[1] /\ ToString(a.y) = line.rest[2]
    [] LowerStr(line.prefix) = WaitPrefix ->
         a.cls = "DelayAction" /\ a.wait_time = ParseFloat(line.rest[1]).v
    [] OTHER -> FALSE

\* C28: the heuristic stage returns one action for each line that gives
\* one, in line order: a Type action with the trimmed remainder and delay
\* 0.5 for a `type:` line, a left Click with delay 0.2 for a `click:` line
\* whose remainder is exactly two integers, a Delay for a `wait:` line whose
\* remainder is a number; the prefixes match in any letter case, every other
\* line gives nothing, and the stage does not raise.
C28_HeuristicLines ==
  HeuristicStage =>
    LET given == SelectSeq(ai.content.lines, Yields)
    IN /\ ai.response.success /\ ai.response.has_actions
       /\ Len(ai.response.actions) = Len(given)
       /\ \A k \in 1..Len(given) : GivenBy(given[k], ai.response.actions[k])

\* a click line with three numbers is dropped and the padded type line
\* after it gives its trimmed text
C28_Witness ==
  /\ HeuristicStage
  /\ Len(ai.content.lines) = 2
  /\ ai.content.lines[1] = [prefix |-> ClickPrefix, rest |-> <<"1", "2", "3">>]
  /\ ai.content.lines[2].rest = <<" ", "h", " ", "i", " ">>
  /\ Len(ai.response.actions) = 1
  /\ ai.response.actions[1].text = <<"h", " ", "i">>

\* an upper-case click line and a wait line, in line order
C28_WitnessOrder ==
  /\ HeuristicStage
  /\ Len(ai.content.lines) = 2
  /\ ai.content.lines[1].rest = <<"7", "0">>
  /\ ai.content.lines[2].rest = <<"1.5">>
  /\ Len(ai.response.actions) = 2
  /\ ai.response.actions[1].cls = "ClickAction"
  /\ ai.response.actions[1].y = 0
  /\ ai.response.actions[2].wait_time = 15

\* ------------------------------------------------- loading a sequence file
\* The decoded file (json.load) is a list of entries or an object; an entry
\* is an action dictionary.  The fields name, description, created_at and
\* modified_at of the sequence are not part of the sequence record.
Loaded(ok, actions) == [ok |-> ok, actions |-> actions]

\* the loop giving up at the first entry that create_from_dict rejects
FromDictLoop_StopsAtBad(entries, actions, now) ==
  LET bad == {k \in 1..Len(entries) :
                create_from_dict(entries[k], now) = UnknownActionType}
      n == IF bad = {} THEN Len(entries)
           ELSE (CHOOSE k \in bad : \A j \in bad : k <= j) - 1
  IN actions \o [k \in 1..n |-> create_from_dict(entries[k], now)]

\* actions.py lines 595-601: the loop of ActionSequence.from_dict, which
\* skips an entry that create_from_dict rejects
RECURSIVE FromDictLoop(_, _, _)
FromDictLoop(entries, actions, now) ==
  IF entries = <<>> THEN actions
  ELSE LET action == create_from_dict(entries[1], now)
       IN FromDictLoop(Tail(entries),
                       IF action = UnknownActionType THEN actions
                       ELSE add_action(actions, action),
                       now)

\* actions.py lines 584-601: ActionSequence.from_dict
SequenceFromDict(self, data, now) ==
  [self EXCEPT
     !.loop_enabled = Get(data, "loop_enabled", FALSE),
     !.loop_count = Get(data, "loop_count", 1),
     !.repeat_interval = Get(data, "repeat_interval", 0),
     !.stop_on_error = Get(data, "stop_on_error", TRUE),
     !.actions = FromDictLoop(Get(data, "actions", <<>>), <<>>, now)]

\* the legacy loop putting each entry in front of the ones before it
LegacyLoop_Prepends(entries, actions, now) ==
  IF entries = <<>> THEN Loaded(TRUE, actions)
  ELSE Loaded(TRUE, [k \in 1..Len(entries) |->
                       create_from_dict(entries[Len(entries) + 1 - k], now)])

\* main_app.py lines 1040-1043: the legacy loop, which stops at the first
\* entry that create_from_dict rejects (the exception leaves load_file's
\* try block)
RECURSIVE LegacyLoop(_, _, _)
LegacyLoop(entries, actions, now) ==
  IF entries = <<>> THEN Loaded(TRUE, actions)
  ELSE LET action == create_from_dict(entries[1], now)
       IN IF action = UnknownActionType THEN Loaded(FALSE, actions)
          ELSE LegacyLoop(Tail(entries), add_action(actions, action), now)

\* main_app.py lines 1027-1062: load_file.  A file that json.load cannot
\* decode raises before line 1034; otherwise the new ActionSequence replaces
\* the current one before anything is read into it.
LoadFile ==
  /\ ld.state = "file"
  /\ LET data == ld.data
         legacy == IF data.shape = "list"
                   THEN LegacyLoop(data.items, <<>>, ld.now)
                   ELSE Loaded(DOMAIN data.object = {}, <<>>)
     IN IF data.shape = "unreadable"
        THEN /\ seq' = seq
             /\ ld' = [ld EXCEPT !.state = "failed"]
        ELSE IF data.shape = "object" /\ "actions" \in DOMAIN data.object
        THEN /\ seq' = SequenceFromDict(NewSequence, data.object, ld.now)
             /\ ld' = [ld EXCEPT !.state = "loaded"]
        ELSE /\ seq' = [NewSequence EXCEPT !.actions = legacy.actions]
             /\ ld' = [ld EXCEPT !.state = IF legacy.ok THEN "loaded" ELSE "failed"]

\* --------------------------------------- specification: loading a file
FileEntries ==
  { CommonFields @@ [type |-> "TypeAction", text |-> <<"h", "i">>],
    CommonFields @@ [type |-> "ClickAction", x |-> 7, y |-> 0, button |-> "right"],
    [type |-> "DelayAction", wait_time |-> 15],
    [type |-> "BogusAction"],
    [text |-> <<"h", "i">>] }
StoredConfigs ==
  { [loop_enabled |-> TRUE, loop_count |-> 3, repeat_interval |-> 20,
     stop_on_error |-> FALSE],
    [loop_count |-> 2] }
FileData ==
  {[shape |-> "list", items |-> es, object |-> <<>>] :
     es \in Lists(FileEntries, MaxActions)}
  \cup {[shape |-> "object", items |-> <<>>, object |-> c @@ [actions |-> es]] :
          c \in StoredConfigs, es \in Lists(FileEntries, MaxActions)}
  \cup {[shape |-> "object", items |-> <<>>, object |-> c] :
          c \in StoredConfigs \cup {<<>>}}
  \cup {[shape |-> "unreadable", items |-> <<>>, object |-> <<>>]}

InitLd ==
  /\ frame = [w \in Threads |-> IdleFrame]
  /\ obs = [w \in Threads |-> NoObs]
  /\ app = IdleApp
  /\ tok = NoTok
  /\ rt = NoRt
  /\ act = NoAct /\ chk = NoChk /\ ai = NoAi /\ stops = NoStops
  /\ seq \in {NewSequence,
              [NewSequence EXCEPT !.actions = <<SampleType>>, !.loop_enabled = TRUE,
                                  !.loop_count = 3, !.stop_on_error = FALSE]}
  /\ \E data \in FileData, now \in {0, MaxClock} :
       ld = [state |-> "file", data |-> data, now |-> now, before |-> seq]

NextLd ==
  /\ UNCHANGED <<frame, obs, app, tok, rt, act, chk, ai, stops>>
  /\ LoadFile

SpecLd == InitLd /\ [][NextLd]_vars

\* ------------------------------------------------ claims: loading a file
\* the entries are action dictionaries: each names a variant
ActionDictionaries(entries) ==
  \A k \in 1..Len(entries) : Get(entries[k], "type", None) \in VariantNames

\* the actions are the entries, one for one and in file order: entry k
\* gives action k, of the entry's variant and with the entry's fields (the
\* description is the one the variant's from_dict writes)
ActionsAreEntries(actions, entries, now) ==
  /\ Len(actions) = Len(entries)
  /\ \A k \in 1..Len(entries) :
       /\ actions[k] = create_from_dict(entries[k], now)
       /\ actions[k].cls = entries[k].type
       /\ \A f \in DOMAIN entries[k] \ {"type", "description"} :
            actions[k][f] = entries[k][f]

\* C20: a file holding a bare list of action dictionaries loads as a
\* sequence with exactly those actions in file order and the default
\* configuration; a wrapper object loads with its actions and the
\* configuration stored in it.
C20_LoadLegacyAndWrapper ==
  ld.state \in {"loaded", "failed"} =>
    /\ (ld.data.shape = "list" /\ ActionDictionaries(ld.data.items)) =>
         /\ ld.state = "loaded"
         /\ ActionsAreEntries(seq.actions, ld.data.items, ld.now)
         /\ seq = [NewSequence EXCEPT !.actions = seq.actions]
    /\ (/\ ld.data.shape = "object"
        /\ "actions" \in DOMAIN ld.data.object
        /\ ActionDictionaries(ld.data.object.actions)) =>
         /\ ld.state = "loaded"
         /\ ActionsAreEntries(seq.actions, ld.data.object.actions, ld.now)
         /\ \A f \in DOMAIN ld.data.object \ {"actions"} : seq[f] = ld.data.object[f]
         /\ \A f \in {"loop_enabled", "loop_count", "repeat_interval", "stop_on_error"}
                      \ DOMAIN ld.data.object : seq[f] = NewSequence[f]

\* a legacy file with two different entries, loaded over a configured sequence
C20_Witness ==
  /\ ld.state = "loaded"
  /\ ld.data.shape = "list"
  /\ Len(ld.data.items) = 2
  /\ ld.data.items[1].type = "ClickAction"
  /\ ld.data.items[2].type = "TypeAction"
  /\ seq.actions[1].cls = "ClickAction"
  /\ ~seq.loop_enabled /\ seq.loop_count = 1 /\ seq.stop_on_error

\* a wrapper file with a stored configuration
C20_WitnessWrapper ==
  /\ ld.state = "loaded"
  /\ ld.data.shape = "object"
  /\ "actions" \in DOMAIN ld.data.object
  /\ Len(seq.actions) = 2
  /\ seq.loop_enabled /\ seq.loop_count = 3 /\ ~seq.stop_on_error

\* an entry that create_from_dict can build: its type names a variant
Buildable(entry) == Get(entry, "type", None) \in VariantNames

\* C39: ActionSequence.from_dict on a wrapper skips each entry whose type
\* is unknown or missing, on its own; the sequence holds the actions of the
\* other entries in file order, the stored configuration is applied, and
\* the load does not fail.
C39_WrapperSkipsBadEntries ==
  (/\ ld.state \in {"loaded", "failed"}
   /\ ld.data.shape = "object"
   /\ "actions" \in DOMAIN ld.data.object) =>
    LET entries == ld.data.object.actions
        good == SelectSeq(entries, Buildable)
    IN /\ ld.state = "loaded"
       /\ ActionsAreEntries(seq.actions, good, ld.now)
       /\ \A f \in DOMAIN ld.data.object \ {"actions"} : seq[f] = ld.data.object[f]
       /\ \A f \in {"loop_enabled", "loop_count", "repeat_interval", "stop_on_error"}
                    \ DOMAIN ld.data.object : seq[f] = NewSequence[f]

\* an unknown type between two good entries, with a stored configuration
C39_Witness ==
  /\ ld.state = "loaded"
  /\ ld.data.shape = "object"
  /\ "actions" \in DOMAIN ld.data.object
  /\ Len(ld.data.object.actions) = 3
  /\ Get(ld.data.object.actions[1], "type", None) = "ClickAction"
  /\ Get(ld.data.object.actions[2], "type", None) = "BogusAction"
  /\ Get(ld.data.object.actions[3], "type", None) = "TypeAction"
  /\ Len(seq.actions) = 2
  /\ seq.actions[1].cls = "ClickAction" /\ seq.actions[2].cls = "TypeAction"
  /\ seq.loop_count = 3 /\ ~seq.stop_on_error

\* an entry with no type in front of a good one
C39_WitnessMissing ==
  /\ ld.state = "loaded"
  /\ ld.data.shape = "object"
  /\ "actions" \in DOMAIN ld.data.object
  /\ Len(ld.data.object.actions) = 2
  /\ "type" \notin DOMAIN ld.data.object.actions[1]
  /\ Len(seq.actions) = 1
  /\ seq.actions[1].cls = "DelayAction"

\* C34: a load that fails leaves the application's sequence as it was
\* before the load (ld.before).
C34_FailedLoadKeepsSequence ==
  ld.state = "failed" => seq = ld.before

\* --------------------------------------- specification: a clone and its original
\* Objects and references.  A Python list is an object of its own: rt.heap
\* holds the lists, and the keys field of a Hotkey object is the address of
\* its list in the heap.  The other fields hold immutable values (str,
\* float, bool, None), which an assignment rebinds.  rt.a is the original,
\* rt.b its clone, rt.wrote the object the latest change went through.
MaxWrites == 2

\* the object with its list read through the heap
Deref(heap, obj) ==
  IF "keys" \in DOMAIN obj THEN [obj EXCEPT !.keys = heap[@]] ELSE obj

\* actions.py lines 119-121 on an object: to_dict puts self.keys itself in
\* the dictionary (line 299), the constructor keeps the list it is given
\* (line 281) and from_dict stores data.get("keys") (line 304), so the
\* clone's keys field is the address the original holds
CloneObject(heap, obj, now) ==
  LET c == clone(Deref(heap, obj), now)
  IN IF "keys" \in DOMAIN obj THEN [c EXCEPT !.keys = obj.keys] ELSE c

ObjOriginals ==
  { [heap |-> <<ks>>, a |-> [HotkeyAction(ks, 0, 0) EXCEPT !.keys = 1]] :
      ks \in {<<"ctrl", "c">>, <<"alt">>} }
  \cup { [heap |-> <<>>, a |-> a] : a \in {SampleType, SampleDisabled} }

\* what obj.field = value leaves of the object
ObjAssigned(obj) ==
  { [obj EXCEPT !.delay = 5], [obj EXCEPT !.enabled = ~@],
    [obj EXCEPT !.name = "mine"], [obj EXCEPT !.id = "x1"] }

InitObj ==
  /\ seq = NewSequence
  /\ frame = [w \in Threads |-> IdleFrame]
  /\ obs = [w \in Threads |-> NoObs]
  /\ app = IdleApp
  /\ tok = NoTok
  /\ act = NoAct /\ chk = NoChk /\ ai = NoAi /\ ld = NoLd /\ stops = NoStops
  /\ \E o \in ObjOriginals :
       rt = [state |-> "have", heap |-> o.heap, a |-> o.a, b |-> NoAction,
             wrote |-> "none", writes |-> 0]

\* b = a.clone()
ObjClone ==
  /\ rt.state = "have"
  /\ rt' = [rt EXCEPT !.state = "cloned", !.b = CloneObject(rt.heap, rt.a, 0)]

\* obj.field = value
ObjAssign(side) ==
  /\ rt.state = "cloned"
  /\ rt.writes < MaxWrites
  /\ \E o \in ObjAssigned(rt[side]) :
       rt' = [rt EXCEPT ![side] = o, !.wrote = side, !.writes = @ + 1]

\* obj.keys = [key]: the field is bound to a new list
ObjAssignKeys(side) ==
  /\ rt.state = "cloned"
  /\ rt.writes < MaxWrites
  /\ "keys" \in DOMAIN rt[side]
  /\ \E key \in {"shift", "f1"} :
       rt' = [rt EXCEPT !.heap = Append(@, <<key>>),
                        ![side] = [@ EXCEPT !.keys = Len(rt.heap) + 1],
                        !.wrote = side, !.writes = @ + 1]

\* obj.keys.append(key)
ObjKeysAppend(side) ==
  /\ rt.state = "cloned"
  /\ rt.writes < MaxWrites
  /\ "keys" \in DOMAIN rt[side]
  /\ \E key \in {"shift", "f1"} :
       rt' = [rt EXCEPT !.heap = [@ EXCEPT ![rt[side].keys] = Append(@, key)],
                        !.wrote = side, !.writes = @ + 1]

\* obj.keys.pop()
ObjKeysPop(side) ==
  /\ rt.state = "cloned"
  /\ rt.writes < MaxWrites
  /\ "keys" \in DOMAIN rt[side]
  /\ rt.heap[rt[side].keys] # <<>>
  /\ rt' = [rt EXCEPT
       !.heap = [@ EXCEPT ![rt[side].keys] = SubSeq(@, 1, Len(@) - 1)],
       !.wrote = side, !.writes = @ + 1]

NextObj ==
  /\ UNCHANGED <<seq, frame, obs, app, tok, act, chk, ai, ld, stops>>
  /\ \/ ObjClone
     \/ \E side \in {"a", "b"} : ObjAssign(side)
     \/ \E side \in {"a", "b"} : ObjAssignKeys(side)
     \/ \E side \in {"a", "b"} : ObjKeysAppend(side)
     \/ \E side \in {"a", "b"} : ObjKeysPop(side)

SpecObj == InitObj /\ [][NextObj]_vars

\* ------------------------------------------ claims: a clone and its original
\* C35: after clone(), a change made through the clone (an assignment to a
\* field, or adding or removing an element of its keys list) changes no
\* field of the original, and a change made through the original changes
\* no field of the clone.
C35_CloneIndependent ==
  [][(rt.state = "cloned" /\ rt'.state = "cloned") =>
       /\ rt'.wrote = "b" => Deref(rt'.heap, rt'.a) = Deref(rt.heap, rt.a)
       /\ rt'.wrote = "a" => Deref(rt'.heap, rt'.b) = Deref(rt.heap, rt.b)]_vars

\* --------------------------------- specification: editing the action list
\* Calls of remove_action and move_action on a list of up to MaxActions
\* actions, with indices in range and out of range.  chk holds the latest
\* call: the list before it, its arguments and what it returned.
MaxCalls == 2

ListActions ==
  { TypeAction(<<"a">>, 0, 0), ClickAction(1, 2, "left", 0, 0), DelayAction(15, 0) }
ListIndices == (0 - 2)..(MaxActions + 1)

InitList ==
  /\ frame = [w \in Threads |-> IdleFrame]
  /\ obs = [w \in Threads |-> NoObs]
  /\ app = IdleApp
  /\ tok = NoTok
  /\ rt = NoRt
  /\ act = NoAct /\ ai = NoAi /\ ld = NoLd /\ stops = NoStops
  /\ \E acts \in Lists(ListActions, MaxActions) :
       seq = [NewSequence EXCEPT !.actions = acts]
  /\ chk = [state |-> "list", op |-> "none", before |-> <<>>, i |-> 0, j |-> 0,
            returned |-> FALSE, calls |-> 0]

\* sequence.remove_action(index)
RemoveActionCall ==
  /\ chk.state = "list"
  /\ chk.calls < MaxCalls
  /\ \E index \in ListIndices :
       /\ seq' = [seq EXCEPT !.actions = remove_action(@, index)]
       /\ chk' = [chk EXCEPT !.op = "remove", !.before = seq.actions,
                             !.i = index, !.j = 0,
                             !.returned = InRange(seq.actions, index),
                             !.calls = @ + 1]

\* sequence.move_action(from_index, to_index)
MoveActionCall ==
  /\ chk.state = "list"
  /\ chk.calls < MaxCalls
  /\ \E from_index \in ListIndices, to_index \in ListIndices :
       /\ seq' = [seq EXCEPT !.actions = move_action(@, from_index, to_index)]
       /\ chk' = [chk EXCEPT !.op = "move", !.before = seq.actions,
                             !.i = from_index, !.j = to_index,
                             !.returned = /\ InRange(seq.actions, from_index)
                                          /\ InRange(seq.actions, to_index),
                             !.calls = @ + 1]

NextList ==
  /\ UNCHANGED <<frame, obs, app, tok, rt, act, ai, ld, stops>>
  /\ \/ RemoveActionCall
     \/ MoveActionCall

SpecList == InitList /\ [][NextList]_vars

\* ------------------------------------------- claims: editing the action list
\* the list without its element at the 0-based index i
Without(s, i) == [k \in 1..(Len(s) - 1) |-> IF k <= i THEN s[k] ELSE s[k + 1]]

Valid(s, i) == i \in 0..(Len(s) - 1)

\* C38: remove_action and move_action with an index outside 0..len-1 return
\* false and leave the list as it was; a successful move_action(from, to)
\* keeps the length, puts the moved action at index to and keeps the order
\* of the others; a successful remove_action(i) removes the action at i and
\* keeps the order of the rest.
C38_RemoveAndMove ==
  /\ chk.op = "remove" =>
       /\ chk.returned = Valid(chk.before, chk.i)
       /\ ~Valid(chk.before, chk.i) => seq.actions = chk.before
       /\ Valid(chk.before, chk.i) => seq.actions = Without(chk.before, chk.i)
  /\ chk.op = "move" =>
       /\ chk.returned = (Valid(chk.before, chk.i) /\ Valid(chk.before, chk.j))
       /\ ~chk.returned => seq.actions = chk.before
       /\ chk.returned =>
            /\ Len(seq.actions) = Len(chk.before)
            /\ seq.actions[chk.j + 1] = chk.before[chk.i + 1]
            /\ Without(seq.actions, chk.j) = Without(chk.before, chk.i)

\* the first of three different actions moved to the end
C38_Witness ==
  /\ chk.op = "move" /\ chk.returned
  /\ chk.i = 0 /\ chk.j = 2
  /\ Len(chk.before) = 3
  /\ chk.before[1] # chk.before[2] /\ chk.before[2] # chk.before[3]
  /\ seq.actions = <<chk.before[2], chk.before[3], chk.before[1]>>

\* an index of -1 and an index of len refused; the middle action removed
C38_WitnessRefused ==
  /\ chk.op = "remove" /\ ~chk.returned
  /\ chk.i = 0 - 1
  /\ Len(seq.actions) = 3

C38_WitnessRemoved ==
  /\ chk.op = "remove" /\ chk.returned
  /\ chk.i = 1
  /\ Len(chk.before) = 3
  /\ seq.actions = <<chk.before[1], chk.before[3]>>

\* ------------------------------------ specification: the AI manager's providers
\* AIManager: API_CONFIG as it is at start-up (ai.config), the registered
\* providers (ai.providers, the keys of self.providers), current_provider
\* (None when unset) and the latest call with what it returned.
MaxMgrCalls == 3

ProviderNames == {"gemini", "openai"}
MgrNames == ProviderNames \cup {"claude"}
MgrKeys == {"", " ", "k2"}

\* bool(api_key.strip())
NonBlank(key) == key \notin {"", " "}

\* lines 510-511 and 524-525: the provider is enabled and has a key
Configured(config, name) == config[name].enabled /\ config[name].api_key # ""

\* api_integration.py lines 507-535: _initialize_providers, gemini first
InitializeProviders(config) ==
  [providers |-> {n \in ProviderNames : Configured(config, n)},
   current_provider |->
     IF Configured(config, "gemini") THEN "gemini"
     ELSE IF Configured(config, "openai") THEN "openai"
     ELSE None]

\* lines 550-557
GetCurrentProvider(m) ==
  IF m.current_provider # None /\ m.current_provider \in m.providers
  THEN m.current_provider ELSE None

IsAvailable(m) == m.providers # {} /\ m.current_provider # None

InitMgr ==
  /\ seq = NewSequence
  /\ frame = [w \in Threads |-> IdleFrame]
  /\ obs = [w \in Threads |-> NoObs]
  /\ app = IdleApp
  /\ tok = NoTok
  /\ rt = NoRt
  /\ act = NoAct /\ chk = NoChk /\ ld = NoLd /\ stops = NoStops
  /\ \E config \in [ProviderNames -> [enabled : BOOLEAN, api_key : {"", "k1"}]] :
       ai = [pc |-> "mgr", config |-> config,
             providers |-> InitializeProviders(config).providers,
             current_provider |-> InitializeProviders(config).current_provider,
             op |-> "init", name |-> "", key |-> "", returned |-> FALSE,
             calls |-> 0]

\* lines 618-638: update_api_key; the provider is registered,
\* current_provider is not assigned
UpdateApiKey ==
  /\ ai.pc = "mgr"
  /\ ai.calls < MaxMgrCalls
  /\ \E name \in MgrNames, key \in MgrKeys :
       ai' = [ai EXCEPT
         !.config = IF name \in ProviderNames
                    THEN [@ EXCEPT ![name] = [enabled |-> NonBlank(key),
                                             api_key |-> key]]
                    ELSE @,
         !.providers = IF name \in ProviderNames THEN @ \cup {name} ELSE @,
         !.op = "update", !.name = name, !.key = key,
         !.returned = name \in ProviderNames,
         !.calls = @ + 1]

\* lines 541-548: set_current_provider
SetCurrentProvider ==
  /\ ai.pc = "mgr"
  /\ ai.calls < MaxMgrCalls
  /\ \E name \in MgrNames :
       ai' = [ai EXCEPT
         !.current_provider = IF name \in ai.providers THEN name ELSE @,
         !.op = "set", !.name = name, !.key = "",
         !.returned = name \in ai.providers,
         !.calls = @ + 1]

NextMgr ==
  /\ UNCHANGED <<seq, frame, obs, app, tok, rt, act, chk, ld, stops>>
  /\ \/ UpdateApiKey
     \/ SetCurrentProvider

SpecMgr == InitMgr /\ [][NextMgr]_vars

\* ------------------------------------------- claims: the AI manager's providers
\* C40: after update_api_key has returned true for a known provider with a
\* non-blank key the manager is available and has a current provider, also
\* when nothing was configured at start-up; and current_provider is always
\* unset or the name of a registered provider.
C40_UpdateMakesAvailable ==
  /\ (/\ ai.op = "update" /\ ai.returned
      /\ ai.name \in ProviderNames /\ NonBlank(ai.key)) =>
       (IsAvailable(ai) /\ GetCurrentProvider(ai) # None)
  /\ ai.current_provider = None \/ ai.current_provider \in ai.providers

\* ------------------------------------ specification: start_automation's guards
\* The application with action lists that can fail validation.  chk holds
\* what ActionSequence.validate() returns for the sequence at the latest call
\* of start_automation.
StartActions == {SampleType, SampleInvalid}

InitStart ==
  /\ \E acts \in Lists(StartActions, MaxAppActions) :
       seq = [NewSequence EXCEPT !.actions = acts]
  /\ frame = [w \in Threads |-> UnbornFrame]
  /\ obs = [w \in Threads |-> CoarseObs]
  /\ app = [IdleApp EXCEPT !.loop_var = TRUE, !.loop_count_var = AppLoopCount,
                         !.repeat_interval_var = AppInterval]
  /\ tok = NoTok
  /\ rt = NoRt
  /\ act = NoAct /\ chk = NoChk /\ ai = NoAi /\ ld = NoLd /\ stops = NoStops

\* start_automation, lines 916-928, and the errors it gets at line 924
StartAutomation(c) ==
  /\ StartCheck(c)
  /\ chk' = [state |-> "start", caller |-> c,
             errors |-> SequenceValidate(seq.actions)]

NextStart ==
  /\ UNCHANGED <<tok, rt, act, ai, ld, stops>>
  /\ \/ \E c \in Callers : StartAutomation(c)
     \/ (\E c \in Callers : StartLaunch(c)) /\ UNCHANGED chk
     \/ (\E c \in Callers : StopAutomation(c)) /\ UNCHANGED chk
     \/ AutomationFinished /\ UNCHANGED chk
     \/ ClearAllActions /\ UNCHANGED chk
     \/ (\E w \in Threads : WorkerStep(w)) /\ UNCHANGED chk

SpecStart == InitStart /\ [][NextStart]_vars

\* ------------------------------------------- claims: start_automation's guards
\* C21: a call of start_automation that finds validation errors (the empty
\* list included) changes nothing: no caller goes on to the launch, no
\* worker thread is born and nothing is executed; a caller goes on to the
\* launch only from a call whose validate() returned no error, and a worker
\* is born only by a caller at the launch.
C21_NoRunOnInvalid ==
  /\ [][(chk' # chk /\ chk'.errors # <<>>) =>
          app' = app /\ frame' = frame /\ obs' = obs /\ seq' = seq]_vars
  /\ [][\A c \in Callers :
          (app.at[c] = "idle" /\ app'.at[c] = "launch") =>
            /\ chk'.state = "start" /\ chk'.caller = c /\ chk'.errors = <<>>
            /\ seq.actions # <<>>
            /\ \A k \in 1..Len(seq.actions) : validate(seq.actions[k])]_vars
  /\ [][\A w \in Threads :
          (frame[w].pc = "unborn" /\ frame'[w].pc # "unborn") =>
            \E c \in Callers : app.at[c] = "launch" /\ app'.at[c] = "idle"]_vars

\* start_automation was called on a list with an invalid action, and the
\* application is idle with no worker
C21_Witness ==
  /\ chk.state = "start"
  /\ seq.actions # <<>>
  /\ \E k \in 1..Len(seq.actions) : ~validate(seq.actions[k])
  /\ \E k \in 1..Len(chk.errors) : chk.errors[k][1] = "invalid"
  /\ ~app.is_running /\ app.start_btn
  /\ \A c \in Callers : app.at[c] = "idle"
  /\ \A w \in Threads : frame[w].pc = "unborn" /\ obs[w].nexec = 0

\* start_automation was called on the empty list
C21_WitnessEmpty ==
  /\ chk.state = "start"
  /\ chk.errors = <<<<"empty", 0>>>>
  /\ ~app.is_running
  /\ \A w \in Threads : frame[w].pc = "unborn"

\* --------------------------------------- specification: stop and start again
\* The application on a valid list, with the stop requests noted: stops[w]
\* becomes 0 when stop_automation is called while worker w is in flight, and
\* then counts the actions w begins.
MaxStopCount == 2

InFlight(w) == frame[w].pc \in InExecute \cup {"countdown", "idle"}

InitStop ==
  /\ \E acts \in Lists({SampleType}, MaxAppActions) :
       seq = [NewSequence EXCEPT !.actions = acts]
  /\ frame = [w \in Threads |-> UnbornFrame]
  /\ obs = [w \in Threads |-> CoarseObs]
  /\ app = [IdleApp EXCEPT !.loop_var = TRUE, !.loop_count_var = AppLoopCount,
                         !.repeat_interval_var = AppInterval]
  /\ tok = NoTok
  /\ rt = NoRt
  /\ act = NoAct /\ chk = NoChk /\ ai = NoAi /\ ld = NoLd /\ stops = NoStops

\* stop_automation, noted against the workers in flight
StopNoted(c) ==
  /\ StopAutomation(c)
  /\ stops' = [w \in Threads |->
                 IF InFlight(w) /\ stops[w] = -1 THEN 0 ELSE stops[w]]

\* a step of worker w, noted when it runs an action after a stop request
WorkerStepNoted(w) ==
  /\ WorkerStep(w)
  /\ stops' = [stops EXCEPT ![w] =
       IF frame[w].pc = "exec" /\ @ >= 0 THEN Min(@ + 1, MaxStopCount) ELSE @]

NextStop ==
  /\ UNCHANGED <<tok, rt, act, chk, ai, ld>>
  /\ \/ (\E c \in Callers : StartCheck(c)) /\ UNCHANGED stops
     \/ (\E c \in Callers : StartLaunch(c)) /\ UNCHANGED stops
     \/ \E c \in Callers : StopNoted(c)
     \/ AutomationFinished /\ UNCHANGED stops
     \/ \E w \in Threads : WorkerStepNoted(w)

SpecStop == InitStop /\ [][NextStop]_vars

\* ----------------------------------------------- claims: stop and start again
\* C30: after stop_automation a worker that was in flight begins no further
\* action beyond the one it was at, whether or not start_automation is
\* called again before the worker has returned.
C30_StopHonoured == \A w \in Threads : stops[w] <= 1

\* C31: a worker against whose run no stop request was issued never finds
\* the application's is_running flag cleared and never finds the start
\* control enabled while it is in flight: the deferred _automation_finished
\* of an earlier worker does not reach a later run.
C31_FinishedOfEarlierRunIsHarmless ==
  \A w \in Threads :
    (InFlight(w) /\ stops[w] = -1) => (app.is_running /\ ~app.start_btn)

\* ------------------------------------ specification: a run comes to its end
\* The application on a valid list with fair scheduling: a thread that can
\* take a step takes one, the Tk loop runs what is in its after-queue, and a
\* handler that has begun is finished.  The two worker slots bound the
\* number of launches.  obs[w].failed notes that the worker's run ended by
\* an exception, stops[w] that a stop was requested against it.
SlotLeft ==
  Cardinality({w \in Threads : frame[w].pc = "unborn"}) >
    Cardinality({c \in Callers : app.at[c] = "launch"})

LiveWorkerStep(w) ==
  /\ \E raises \in BOOLEAN : WorkerStepRaising(w, raises)
  /\ stops' = [stops EXCEPT ![w] =
       IF frame[w].pc = "exec" /\ @ >= 0 THEN Min(@ + 1, MaxStopCount) ELSE @]

LiveStart(c) == SlotLeft /\ StartCheck(c) /\ UNCHANGED stops
LiveLaunch(c) == StartLaunch(c) /\ UNCHANGED stops
LiveFinished == AutomationFinished /\ UNCHANGED stops

NextLive ==
  /\ UNCHANGED <<tok, rt, act, chk, ai, ld>>
  /\ \/ \E c \in Callers : LiveStart(c)
     \/ \E c \in Callers : LiveLaunch(c)
     \/ \E c \in Callers : StopNoted(c)
     \/ LiveFinished
     \/ \E w \in Threads : LiveWorkerStep(w)

Fairness ==
  /\ \A w \in Threads :
       WF_vars(LiveWorkerStep(w) /\ UNCHANGED <<tok, rt, act, chk, ai, ld>>)
  /\ \A c \in Callers :
       WF_vars(LiveLaunch(c) /\ UNCHANGED <<tok, rt, act, chk, ai, ld>>)
  /\ WF_vars(LiveFinished /\ UNCHANGED <<tok, rt, act, chk, ai, ld>>)

SpecLive == InitStop /\ [][NextLive]_vars /\ Fairness

\* ------------------------------------------- claims: a run comes to its end
\* the application is idle
AppIdle == ~app.is_running /\ app.start_btn /\ ~app.stop_btn

Launched(w) == frame[w].pc \notin {"unborn", "exited"}

\* C33: once a worker has been launched the application eventually is idle
\* again (is_running false, start control enabled, stop control disabled),
\* however the worker's run ends.
C33_EventuallyIdle ==
  \A w \in Threads : Launched(w) ~> (AppIdle /\ ~Launched(w))

\* a worker that was stopped in its countdown has gone and the application
\* is idle
C33_Witness ==
  /\ AppIdle
  /\ app.after = 0
  /\ \E w \in Threads : frame[w].pc = "exited" /\ stops[w] = 0
  /\ \A w \in Threads : ~Launched(w)

\* a worker whose execute() raised is about to leave
C33_WitnessRaised ==
  \E w \in Threads : frame[w].pc = "done" /\ frame[w].result = "raised"

====
